---------------------------- MODULE Spec2Model ----------------------------
(***************************************************************************)
(* Framed serial telemetry link of the OneManRave firmware.                *)
(*                                                                         *)
(*   teensy_fft  : Proto::crc16_ccitt, Proto::encodeFrame, the three       *)
(*                 per-type sequence counters and the silence gate of      *)
(*                 sendFftFrame.                                           *)
(*   teensy_led  : processSerialData, the byte-stream frame decoder with   *)
(*                 resyncFromBuffer and the stale-buffer timeout.          *)
(*                                                                         *)
(* Bytes are naturals 0..255, buffers are sequences of bytes.  A C array   *)
(* index i is position i+1 of the sequence.                                *)
(***************************************************************************)
EXTENDS Integers, Sequences, FiniteSets, TLC

VARIABLES
    wire,          \* bytes written to the link that have not reached Serial1 yet
    rxFifo,        \* Serial1 receive queue: bytes that arrived and are unread
    rxBuffer,      \* rxBuffer[0 .. rxIndex-1] of the decoder
    elapsed,       \* millis() - lastByteMs, saturated at STALE_MS + 1
    pc,            \* position of the rendering node: "idle" or "loop" (inside the while)
    crcErrors,     \* static int crcErrors of processSerialData
    dispatched,    \* frames handed to the consumer, oldest first
    staleDropped,  \* bytes the last stale-buffer clear threw away
    scen,          \* the input of the run (what was given to the encoder, the damage)
    encRes,        \* return value and output buffer of the last encodeFrame call
    fftSeq,        \* static uint8_t fftSeq of the analysis node
    cmdSeq,        \* static uint8_t cmdSeq
    auxSeq,        \* static uint8_t auxSeq
    smoothedBandAmplitude, \* per band, in units of 1e-9
    wasTransmitting,       \* static bool wasTransmitting
    sent,          \* headers of the frames the last pass of loop() wrote to Serial2
    txTick,        \* the last pass of loop() was a transmit tick
    lastSeq,       \* per type: seq of the last frame written, -1 if none
    prevSeq,       \* per type: seq of the frame written before that one, -1 if none
    cmdFifo,       \* Serial1 of the analysis node: command characters received, unread
    upLen,         \* characters the upstream controller has sent of its current line
    encPc,         \* position of the analysis node: "top" of loop() or "reading" a line
    lineLen,       \* characters readBytesUntil has stored in command[] so far
    analysed,      \* the last pass of loop() processed a new spectral window
    pending,       \* the newest window's features are untransmitted and pass the gate
    rPc,           \* position of the rendering node: "main", "yield", "render", "delay", "return"
    rMode,         \* state.mode of the rendering node
    rPattern,      \* state.pattern
    serialDataPending,     \* volatile bool serialDataPending
    inLoop,        \* the render loop the node is in: "M", "P", "A" or "none"
    serviced,      \* the decoder was serviced in the current loop iteration
    cmdInLoop,     \* a command was decoded since the render loop was entered
    vocal,         \* statics and outputs of calculateVocalEnvelope
    dsp,           \* input and result of the DSP function under check
    consumer       \* the rendering node's decoded data: state, saved settings, feature and aux globals

decVars == <<rxFifo, rxBuffer, elapsed, pc, crcErrors, dispatched, staleDropped>>
encVars == <<fftSeq, cmdSeq, auxSeq, smoothedBandAmplitude, wasTransmitting, sent,
             txTick, lastSeq, prevSeq>>
loopVars == <<cmdFifo, upLen, encPc, lineLen, analysed, pending>>
renderVars == <<rPc, rMode, rPattern, serialDataPending, inLoop, serviced, cmdInLoop>>
dspVars == <<vocal, dsp>>
consVars == <<consumer>>
vars == <<wire, rxFifo, rxBuffer, elapsed, pc, crcErrors, dispatched, staleDropped,
          scen, encRes, fftSeq, cmdSeq, auxSeq, smoothedBandAmplitude, wasTransmitting,
          sent, txTick, lastSeq, prevSeq, cmdFifo, upLen, encPc, lineLen, analysed, pending,
          rPc, rMode, rPattern, serialDataPending, inLoop, serviced, cmdInLoop, vocal, dsp,
          consumer>>

---------------------------------------------------------------------------
(* Protocol constants *)

SOF == 170
EOF_BYTE == 187
TYPE_FFT == 1
TYPE_CMD == 2
TYPE_AUX == 3
FIXED_PAYLOAD_LEN == 68
AUX_PAYLOAD_LEN == 36
MAX_FRAME_SIZE == 80
STALE_MS == 10
CRC_INIT == 65535
CRC_POLY == 4129

Byte == 0 .. 255

---------------------------------------------------------------------------
(* uint16_t arithmetic *)

RECURSIVE Xor(_, _)
Xor(a, b) ==
    IF a = 0 THEN b
    ELSE IF b = 0 THEN a
    ELSE (((a % 2) + (b % 2)) % 2) + 2 * Xor(a \div 2, b \div 2)

\* the shift with the CRC-16/ARC polynomial 0x8005 in place of 0x1021
CrcShiftOfPoly8005(crc) ==
    IF crc \div 32768 = 1
    THEN Xor((crc * 2) % 65536, 32773)
    ELSE (crc * 2) % 65536

\* the shift without the ^ 0x1021 of the first branch
CrcShiftOfNoXor(crc) == (crc * 2) % 65536

\* crc = (crc & 0x8000) ? (crc << 1) ^ 0x1021 : (crc << 1), truncated to 16 bits
CrcShiftOf(crc) ==
    IF crc \div 32768 = 1
    THEN Xor((crc * 2) % 65536, CRC_POLY)
    ELSE (crc * 2) % 65536

\* CrcShiftOf and the byte-wide ^ tabulated over every operand, evaluated once
CrcShiftTable == SubSeq([i \in 1 .. 65536 |-> CrcShiftOf(i - 1)], 1, 65536)
XorByteTable ==
    SubSeq([i \in 1 .. 256 |-> SubSeq([j \in 1 .. 256 |-> Xor(i - 1, j - 1)], 1, 256)],
           1, 256)

CrcShift(crc) == CrcShiftTable[crc + 1]
XorByte(a, b) == XorByteTable[a + 1][b + 1]

\* crc ^= data[i] << 8 (only the high byte changes), then the eight shifts
CrcByte(crc, b) ==
    CrcShift(CrcShift(CrcShift(CrcShift(
    CrcShift(CrcShift(CrcShift(CrcShift(
        XorByte(crc \div 256, b) * 256 + (crc % 256)))))))))

\* the loop over data[lo .. hi], run as two half loops one after the other
RECURSIVE CrcRange(_, _, _, _)
CrcRange(crc, data, lo, hi) ==
    IF lo > hi THEN crc
    ELSE IF lo = hi THEN CrcByte(crc, data[lo])
    ELSE LET mid == (lo + hi) \div 2
             left == CrcRange(crc, data, lo, mid)
         IN  IF left \in 0 .. 65535 THEN CrcRange(left, data, mid + 1, hi) ELSE left

CrcFrom(crc, data, i) == CrcRange(crc, data, i, Len(data))

crc16_ccitt(data) == CrcFrom(CRC_INIT, data, 1)

---------------------------------------------------------------------------
(* Frame encoder (teensy_fft) *)

\* encodeFrame with the CRC appended high byte first
encodeFrameCrcHiLo(type, seq, payload, payloadLen, outCap) ==
    LET needed == 1 + 1 + 1 + 1 + payloadLen + 2 + 1
        body == <<type, seq, payloadLen>> \o SubSeq(payload, 1, payloadLen)
        crc == crc16_ccitt(body)
    IN  IF outCap < needed
        THEN [ok |-> FALSE, out |-> <<>>, outLen |-> 0]
        ELSE [ok |-> TRUE,
              out |-> <<SOF>> \o body \o <<crc \div 256, crc % 256>> \o <<EOF_BYTE>>,
              outLen |-> needed]

\* payload holds at least payloadLen bytes; out is what the call wrote
encodeFrame(type, seq, payload, payloadLen, outCap) ==
    LET needed == 1 + 1 + 1 + 1 + payloadLen + 2 + 1
        body == <<type, seq, payloadLen>> \o SubSeq(payload, 1, payloadLen)
        crc == crc16_ccitt(body)
    IN  IF outCap < needed
        THEN [ok |-> FALSE, out |-> <<>>, outLen |-> 0]
        ELSE [ok |-> TRUE,
              out |-> <<SOF>> \o body \o <<crc % 256, crc \div 256>> \o <<EOF_BYTE>>,
              outLen |-> needed]

---------------------------------------------------------------------------
(* Main loop of the analysis node (teensy_fft): sequence counters, silence gate *)

activeBands == 12
smoothingFactor == 15
SILENCE_THRESHOLD == 10
SeqWindow == 2

Bands == 1 .. activeBands

\* the return value of encodeFrame: false when outCap < needed
encodeFrameFits(payloadLen, outCap) == ~(outCap < 1 + 1 + 1 + 1 + payloadLen + 2 + 1)

\* sizeof(frame) of the local buffer the senders encode into
FrameBufSize(payloadLen) == 1 + 1 + 1 + 1 + payloadLen + 2 + 1

\* the counter stuck at 255
SeqIncSaturating(seq) == IF seq = 255 THEN 255 ELSE seq + 1

\* seq++ on a uint8_t
SeqInc(seq) == (seq + 1) % 256

\* the two weights exchanged
SmoothWeightsSwapped(smoothed, calibratedEnergy) ==
    ((100 - smoothingFactor) * smoothed + smoothingFactor * calibratedEnergy) \div 100

\* 0.15 * smoothed + 0.85 * calibratedEnergy, in units of 1e-9
Smooth(smoothed, calibratedEnergy) ==
    (smoothingFactor * smoothed + (100 - smoothingFactor) * calibratedEnergy) \div 100

\* the gate opened at the threshold itself
hasSignalAtThreshold(amp) == \E i \in Bands : amp[i] >= SILENCE_THRESHOLD

\* the scan of sendFftFrame over the active bands
hasSignal(amp) == \E i \in Bands : amp[i] > SILENCE_THRESHOLD

\* if (encodeFrame(type, seq, ...)) Serial2.write(frame, frameLen);
WriteFrame(type, seq, payloadLen) ==
    IF encodeFrameFits(payloadLen, FrameBufSize(payloadLen))
    THEN <<[type |-> type, seq |-> seq, len |-> payloadLen]>>
    ELSE <<>>

\* st is the state of the node: its counters, amplitudes and what it wrote
sendAuxFrame(st) ==
    [st EXCEPT !.sent = @ \o WriteFrame(TYPE_AUX, st.auxSeq, AUX_PAYLOAD_LEN),
               !.auxSeq = SeqInc(@)]

\* the aux frame written on every transmit tick, gate open or not
sendFftFrameAuxUngated(st) ==
    IF ~hasSignal(st.amp)
    THEN sendAuxFrame([st EXCEPT !.wasTransmitting = FALSE])
    ELSE sendAuxFrame(
           [st EXCEPT !.wasTransmitting = TRUE,
                      !.sent = @ \o WriteFrame(TYPE_FFT, st.fftSeq, FIXED_PAYLOAD_LEN),
                      !.fftSeq = SeqInc(@)])

sendFftFrame(st) ==
    IF ~hasSignal(st.amp)
    THEN [st EXCEPT !.wasTransmitting = FALSE]
    ELSE sendAuxFrame(
           [st EXCEPT !.wasTransmitting = TRUE,
                      !.sent = @ \o WriteFrame(TYPE_FFT, st.fftSeq, FIXED_PAYLOAD_LEN),
                      !.fftSeq = SeqInc(@)])

\* the command frame written only while feature frames are flowing
forwardESP32CommandsGated(st) ==
    IF st.wasTransmitting
    THEN [st EXCEPT !.sent = @ \o WriteFrame(TYPE_CMD, st.cmdSeq, FIXED_PAYLOAD_LEN),
                    !.cmdSeq = SeqInc(@)]
    ELSE st

\* one line was read from the upstream controller; activeBands is 12 from the
\* start, so the branch that clears the amplitudes on a band switch is dead
forwardESP32Commands(st) ==
    [st EXCEPT !.sent = @ \o WriteFrame(TYPE_CMD, st.cmdSeq, FIXED_PAYLOAD_LEN),
               !.cmdSeq = SeqInc(@)]

\* a new spectral window is available; raw[band] is its calibrated energy
calculateBandAmplitudes(st, raw) ==
    [st EXCEPT !.amp = [band \in Bands |-> Smooth(st.amp[band], raw[band])]]

\* calibrated energies of a window: silence, or energy in the last band only
RawWindows ==
    {[band \in Bands |-> 0],
     [band \in Bands |-> IF band = activeBands THEN 12 ELSE 0]}

Seqs(frames, type) == {frames[i].seq : i \in {j \in 1 .. Len(frames) : frames[j].type = type}}

NoSeq == [t \in {TYPE_FFT, TYPE_CMD, TYPE_AUX} |-> -1]

EncInit ==
    /\ fftSeq = 0
    /\ cmdSeq = 0
    /\ auxSeq = 0
    /\ smoothedBandAmplitude = [band \in Bands |-> 0]
    /\ wasTransmitting = FALSE
    /\ sent = <<>>
    /\ txTick = FALSE
    /\ lastSeq = NoSeq
    /\ prevSeq = NoSeq
    /\ cmdFifo = <<>>
    /\ upLen = 0
    /\ encPc = "top"
    /\ lineLen = 0
    /\ analysed = FALSE
    /\ pending = FALSE
    /\ rPc = "main"
    /\ rMode = "S"
    /\ rPattern = 0
    /\ serialDataPending = FALSE
    /\ inLoop = "none"
    /\ serviced = FALSE
    /\ cmdInLoop = FALSE

\* The DSP functions are not running.
DspIdle ==
    /\ vocal = <<>>
    /\ dsp = <<>>

\* the body of loop(): forward a command line if one is waiting, fold in a
\* new spectral window if one is available, transmit if the frame period elapsed
LoopBody(st0, cmdLine, fftAvailable, raw, frameDue) ==
    LET st1 == IF cmdLine THEN forwardESP32Commands(st0) ELSE st0
        st2 == IF fftAvailable THEN calculateBandAmplitudes(st1, raw) ELSE st1
    IN  IF frameDue THEN sendFftFrame(st2) ELSE st2

\* what a pass that ended in state st leaves in the variables of the node
PassEffect(st, frameDue) ==
    /\ fftSeq' = st.fftSeq
    /\ cmdSeq' = st.cmdSeq
    /\ auxSeq' = st.auxSeq
    /\ smoothedBandAmplitude' = st.amp
    /\ wasTransmitting' = st.wasTransmitting
    /\ sent' = st.sent
    /\ txTick' = frameDue
    /\ lastSeq' = [t \in {TYPE_FFT, TYPE_CMD, TYPE_AUX} |->
                     IF Seqs(st.sent, t) = {} THEN lastSeq[t]
                     ELSE CHOOSE q \in Seqs(st.sent, t) : TRUE]
    /\ prevSeq' = [t \in {TYPE_FFT, TYPE_CMD, TYPE_AUX} |->
                     IF Seqs(st.sent, t) = {} THEN prevSeq[t] ELSE lastSeq[t]]

\* the state of the node as loop() finds it
NodeState ==
    [fftSeq |-> fftSeq, cmdSeq |-> cmdSeq, auxSeq |-> auxSeq,
     amp |-> smoothedBandAmplitude, wasTransmitting |-> wasTransmitting, sent |-> <<>>]

\* one pass of loop(); the runs explored keep one of the two independent
\* counters within SeqWindow of zero
LoopPass ==
    \E cmdLine \in BOOLEAN, fftAvailable \in BOOLEAN, raw \in RawWindows, frameDue \in BOOLEAN :
      \E st \in {LoopBody(NodeState, cmdLine, fftAvailable, raw, frameDue)} :
          /\ IF st.fftSeq < SeqWindow THEN TRUE ELSE st.cmdSeq < SeqWindow
          /\ PassEffect(st, frameDue)
          /\ UNCHANGED <<wire, rxFifo, rxBuffer, elapsed, pc, crcErrors, dispatched,
                         staleDropped, scen, encRes>>
          /\ UNCHANGED loopVars
          /\ UNCHANGED renderVars
          /\ UNCHANGED consVars
          /\ UNCHANGED dspVars

---------------------------------------------------------------------------
(* Frame decoder (teensy_led) *)

rxIndex == Len(rxBuffer)

\* index (1-based) of the first SOF at C positions 1 .. n-1, or 0
FirstSofFrom(buf, i) ==
    LET sofs == {j \in i .. Len(buf) : buf[j] = SOF}
    IN  IF sofs = {} THEN 0 ELSE CHOOSE j \in sofs : \A k \in sofs : j <= k

\* the scan started at position 0
resyncFromBufferScan0(buf) ==
    LET sofIndex == FirstSofFrom(buf, 1)
    IN  IF sofIndex > 0 THEN SubSeq(buf, sofIndex, Len(buf)) ELSE <<>>

\* the buffer is emptied whether or not it holds an SOF
resyncFromBufferClear(buf) == <<>>

\* the cursor is left where it is when the buffer holds no further SOF
resyncFromBufferNoReset(buf) ==
    LET sofIndex == FirstSofFrom(buf, 2)
    IN  IF sofIndex > 0 THEN SubSeq(buf, sofIndex, Len(buf)) ELSE buf

resyncFromBuffer(buf) ==
    LET sofIndex == FirstSofFrom(buf, 2)
    IN  IF sofIndex > 0 THEN SubSeq(buf, sofIndex, Len(buf)) ELSE <<>>

lenOk(frameType, payloadLen) ==
    IF frameType = TYPE_FFT \/ frameType = TYPE_CMD
    THEN payloadLen = FIXED_PAYLOAD_LEN
    ELSE IF frameType = TYPE_AUX
    THEN payloadLen = AUX_PAYLOAD_LEN
    ELSE FALSE

\* the EOF marker is not looked at
eofOkUnchecked(nb, expectedFrameSize) == TRUE

\* rxBuffer[expectedFrameSize - 1] != Proto::EOF_BYTE is the framing error
eofOk(nb, expectedFrameSize) == nb[expectedFrameSize] = EOF_BYTE

\* the received CRC read high byte first
crcOkHighByteFirst(nb, payloadLen) ==
    LET rxCrc == 256 * nb[5 + payloadLen] + nb[6 + payloadLen]
        calcCrc == crc16_ccitt(SubSeq(nb, 2, 4 + payloadLen))
    IN  rxCrc = calcCrc

\* rxCrc = rxBuffer[4 + payloadLen] | (rxBuffer[5 + payloadLen] << 8), against
\* crc16_ccitt(&rxBuffer[1], 3 + payloadLen)
crcOk(nb, payloadLen) ==
    LET rxCrc == nb[5 + payloadLen] + 256 * nb[6 + payloadLen]
        calcCrc == crc16_ccitt(SubSeq(nb, 2, 4 + payloadLen))
    IN  rxCrc = calcCrc

\* what the consumer is handed: the type, and payload = &rxBuffer[4]
Dispatch(nb, frameType, payloadLen) ==
    [type |-> frameType, payload |-> SubSeq(nb, 5, 4 + payloadLen), frame |-> nb]

\* the character codes of the modes
ModeOff == 48
ModeSolid == 83
ModePattern == 80
ModeMusic == 77

\* State state = {'S', 0, 10}; savedMusic, savedSolid, savedPattern = {0, 10};
\* the feature and aux globals are zero-initialised
ConsumerBoot ==
    [state |-> [mode |-> ModeSolid, pattern |-> 0, brightness |-> 10],
     savedMusic |-> [pattern |-> 0, brightness |-> 10],
     savedSolid |-> [pattern |-> 0, brightness |-> 10],
     savedPattern |-> [pattern |-> 0, brightness |-> 10],
     feature |-> <<>>,
     aux |-> <<>>]

\* saveCurrentModeSettings
saveCurrentModeSettings(c) ==
    LET kept == [pattern |-> c.state.pattern, brightness |-> c.state.brightness] IN
    IF c.state.mode = ModeMusic THEN [c EXCEPT !.savedMusic = kept]
    ELSE IF c.state.mode = ModeSolid THEN [c EXCEPT !.savedSolid = kept]
    ELSE IF c.state.mode = ModePattern THEN [c EXCEPT !.savedPattern = kept]
    ELSE c

\* switchToMode(newMode, pattern, brightness), pattern and brightness read
\* from payload bytes and so never negative
switchToMode(c, newMode, pattern, brightness) ==
    LET c1 == saveCurrentModeSettings(c) IN
    IF newMode = ModeOff
    THEN [c1 EXCEPT !.state = [mode |-> newMode, pattern |-> 0,
                               brightness |-> c1.state.brightness]]
    ELSE [c1 EXCEPT !.state = [mode |-> newMode,
                               pattern |-> IF pattern >= 0 THEN pattern ELSE 0,
                               brightness |-> IF brightness >= 0 THEN brightness ELSE 100]]

\* applyCommandPayload: mode = payload[0], pattern = payload[1], brightness = payload[3]
applyCommandPayload(c, payload) == switchToMode(c, payload[1], payload[2], payload[4])

\* the FFT branch: the globals a feature payload is copied into
FeatureOf(payload) ==
    [currentBandCount |-> 12,
     bandAmplitude |-> SubSeq(payload, 1, 48),
     vocalEnv |-> payload[49],
     vocalSyllable |-> payload[50],
     vocalNote |-> payload[51],
     vocalNoteStrength |-> payload[52],
     beatAmplitude |-> 0,
     spdifLock |-> payload[53],
     chroma |-> SubSeq(payload, 54, 65),
     dominantPitch |-> payload[66],
     pitchStrength |-> payload[67],
     vocalSustain |-> payload[68]]

\* the AUX branch
AuxOf(payload) ==
    [bandVis8 |-> SubSeq(payload, 1, 12),
     bandDelta8 |-> SubSeq(payload, 13, 24),
     globalVis8 |-> payload[25],
     bassVis8 |-> payload[26],
     midVis8 |-> payload[27],
     trebleVis8 |-> payload[28],
     majorPeakHz |-> payload[29] + 256 * payload[30],
     majorPeakMag |-> payload[31],
     spectralFlux8 |-> payload[32],
     peakDetected |-> payload[33]]

\* a frame is taken for a feature frame by its length alone
isFeatureFrameByLength(frameType, payloadLen) == payloadLen = FIXED_PAYLOAD_LEN

\* frameType == Proto::TYPE_FFT && payloadLen == Proto::FIXED_PAYLOAD_LEN
isFeatureFrame(frameType, payloadLen) ==
    frameType = TYPE_FFT /\ payloadLen = FIXED_PAYLOAD_LEN

\* frameType == Proto::TYPE_CMD && payloadLen == Proto::FIXED_PAYLOAD_LEN
isCommandFrame(frameType, payloadLen) ==
    frameType = TYPE_CMD /\ payloadLen = FIXED_PAYLOAD_LEN

\* frameType == Proto::TYPE_AUX && payloadLen == Proto::AUX_PAYLOAD_LEN
isAuxFrame(frameType, payloadLen) ==
    frameType = TYPE_AUX /\ payloadLen = AUX_PAYLOAD_LEN

\* "Process based on type": what a dispatched payload does to the node's
\* data (the packet counters and timestamps of the debug print are left out)
applyDispatch(c, frameType, payload) ==
    IF isFeatureFrame(frameType, Len(payload))
    THEN [c EXCEPT !.feature = FeatureOf(payload)]
    ELSE IF isCommandFrame(frameType, Len(payload))
    THEN applyCommandPayload(c, payload)
    ELSE IF isAuxFrame(frameType, Len(payload))
    THEN [c EXCEPT !.aux = AuxOf(payload)]
    ELSE c

\* One iteration of the while loop of processSerialData on byte b with the
\* buffer buf: the new buffer, the increment of crcErrors and the dispatch made.
RxByte(buf, b) ==
    IF Len(buf) = 0
    THEN [buf |-> IF b = SOF THEN <<b>> ELSE <<>>, crcInc |-> 0, out |-> <<>>]
    ELSE
      LET nb == Append(buf, b) IN
      IF Len(nb) < 4
      THEN [buf |-> nb, crcInc |-> 0, out |-> <<>>]
      ELSE
        LET payloadLen == nb[4]
            expectedFrameSize == 4 + payloadLen + 3
            frameType == nb[2]
        IN
        IF expectedFrameSize > MAX_FRAME_SIZE \/ ~lenOk(frameType, payloadLen)
        THEN [buf |-> resyncFromBuffer(nb), crcInc |-> 0, out |-> <<>>]
        ELSE IF Len(nb) < expectedFrameSize
        THEN [buf |-> nb, crcInc |-> 0, out |-> <<>>]
        ELSE IF ~eofOk(nb, expectedFrameSize)
        THEN [buf |-> resyncFromBuffer(nb), crcInc |-> 0, out |-> <<>>]
        ELSE IF ~crcOk(nb, payloadLen)
        THEN [buf |-> resyncFromBuffer(nb), crcInc |-> 1, out |-> <<>>]
        ELSE [buf |-> <<>>, crcInc |-> 0,
              out |-> <<Dispatch(nb, frameType, payloadLen)>>]

\* the timeout compared against 100 ms
isStaleAfter100(index, ms) == index > 0 /\ ms > 100

\* rxIndex > 0 && (nowMs - lastByteMs) > 10
isStale(index, ms) == index > 0 /\ ms > STALE_MS

\* entry of processSerialData: the stale partial frame is dropped
SvcEnter ==
    /\ pc = "idle"
    /\ pc' = "loop"
    /\ IF isStale(rxIndex, elapsed)
       THEN /\ rxBuffer' = <<>>
            /\ staleDropped' = rxBuffer
       ELSE UNCHANGED <<rxBuffer, staleDropped>>
    /\ UNCHANGED <<wire, rxFifo, elapsed, crcErrors, dispatched, scen, encRes>>
    /\ UNCHANGED encVars
    /\ UNCHANGED loopVars
    /\ UNCHANGED renderVars
    /\ UNCHANGED consVars
    /\ UNCHANGED dspVars

\* one iteration of while (Serial1.available())
SvcByte ==
    /\ pc = "loop"
    /\ rxFifo # <<>>
    /\ LET r == RxByte(rxBuffer, Head(rxFifo)) IN
         /\ rxBuffer' = r.buf
         /\ crcErrors' = crcErrors + r.crcInc
         /\ dispatched' = dispatched \o r.out
         /\ consumer' = IF r.out = <<>> THEN consumer
                         ELSE applyDispatch(consumer, r.out[1].type, r.out[1].payload)
         /\ serialDataPending' = IF r.out # <<>> /\ isCommandFrame(r.out[1].type,
                                                                   Len(r.out[1].payload))
                                  THEN TRUE ELSE serialDataPending
    /\ rxFifo' = Tail(rxFifo)
    /\ elapsed' = 0
    /\ UNCHANGED <<wire, pc, staleDropped, scen, encRes>>
    /\ UNCHANGED encVars
    /\ UNCHANGED loopVars
    /\ UNCHANGED <<rPc, rMode, rPattern, inLoop, serviced, cmdInLoop>>
    /\ UNCHANGED dspVars

\* Serial1.available() is 0: the loop ends; the 3 s debug window may close
SvcExit ==
    /\ pc = "loop"
    /\ rxFifo = <<>>
    /\ pc' = "idle"
    /\ \E debugDue \in BOOLEAN :
         crcErrors' = IF debugDue THEN 0 ELSE crcErrors
    /\ UNCHANGED <<wire, rxFifo, rxBuffer, elapsed, dispatched, staleDropped, scen, encRes>>
    /\ UNCHANGED encVars
    /\ UNCHANGED loopVars
    /\ UNCHANGED renderVars
    /\ UNCHANGED consVars
    /\ UNCHANGED dspVars

\* a millisecond passes; millis() is sampled on entry of processSerialData
Tick ==
    /\ pc = "idle"
    /\ elapsed <= STALE_MS
    /\ elapsed' = elapsed + 1
    /\ UNCHANGED <<wire, rxFifo, rxBuffer, pc, crcErrors, dispatched, staleDropped,
                   scen, encRes>>
    /\ UNCHANGED encVars
    /\ UNCHANGED loopVars
    /\ UNCHANGED renderVars
    /\ UNCHANGED consVars
    /\ UNCHANGED dspVars


\* the UART moves the next k bytes of the link into the receive queue
Arrive(k) ==
    /\ rxFifo = <<>>
    /\ k \in 1 .. Len(wire)
    /\ rxFifo' = SubSeq(wire, 1, k)
    /\ wire' = SubSeq(wire, k + 1, Len(wire))
    /\ UNCHANGED <<rxBuffer, elapsed, pc, crcErrors, dispatched, staleDropped,
                   scen, encRes>>
    /\ UNCHANGED encVars
    /\ UNCHANGED loopVars
    /\ UNCHANGED renderVars
    /\ UNCHANGED consVars
    /\ UNCHANGED dspVars

---------------------------------------------------------------------------
(* Transport damage: what the lossy link does to the bytes of one frame *)

NoDamage == [kind |-> "none", pos |-> 0, val |-> 0]

ApplyDamage(bytes, d) ==
    IF d.kind = "flip"
    THEN [bytes EXCEPT ![d.pos] = XorByte(@, 2 ^ d.val)]
    ELSE IF d.kind = "set"
    THEN [bytes EXCEPT ![d.pos] = d.val]
    ELSE IF d.kind = "drop"
    THEN SubSeq(bytes, 1, d.pos - 1) \o SubSeq(bytes, d.pos + d.val, Len(bytes))
    ELSE bytes

---------------------------------------------------------------------------
(* Inputs of the codec runs *)

PayloadLenOf(type) == IF type = TYPE_AUX THEN AUX_PAYLOAD_LEN ELSE FIXED_PAYLOAD_LEN

ConstPayload(n, v) == [i \in 1 .. n |-> v]
RampPayload(n) == [i \in 1 .. n |-> (i * 37 + 11) % 256]
MarkerPayload(n) ==
    [i \in 1 .. n |-> IF i = 1 \/ i = n - 1 THEN SOF
                      ELSE IF i = 2 \/ i = n THEN EOF_BYTE ELSE 85]

\* a feature payload whose bytes 40..43 read as the header of a feature frame
HeaderPayload ==
    [i \in 1 .. FIXED_PAYLOAD_LEN |->
        IF i = 40 THEN SOF
        ELSE IF i = 41 THEN TYPE_FFT
        ELSE IF i = 43 THEN FIXED_PAYLOAD_LEN
        ELSE (i * 37 + 11) % 256]

\* an aux payload whose bytes 20..23 read as the header of a feature frame
AuxHeaderPayload ==
    [i \in 1 .. AUX_PAYLOAD_LEN |->
        IF i = 20 THEN SOF
        ELSE IF i = 21 THEN TYPE_FFT
        ELSE IF i = 23 THEN FIXED_PAYLOAD_LEN
        ELSE (i * 37 + 11) % 256]

PayloadSamples(n) ==
    {ConstPayload(n, 0), ConstPayload(n, SOF), ConstPayload(n, EOF_BYTE),
     RampPayload(n), MarkerPayload(n)}

SeqSamples == {0, SOF, 255}

ValidTypes == {TYPE_FFT, TYPE_CMD, TYPE_AUX}

FrameIn(t, s, n, p, c) == [type |-> t, seq |-> s, len |-> n, payload |-> p, cap |-> c]

\* every frame type with its exact payload length, undamaged
ValidInputs ==
    UNION {{[in |-> FrameIn(t, s, PayloadLenOf(t), p, PayloadLenOf(t) + 7),
             damage |-> NoDamage] :
              s \in SeqSamples, p \in PayloadSamples(PayloadLenOf(t))} :
           t \in ValidTypes}

\* any type, any length, any capacity around the needed one
AnyLens == {0, 1, AUX_PAYLOAD_LEN, FIXED_PAYLOAD_LEN}
AnyInputs ==
    UNION {{[in |-> FrameIn(t, 7, n, p, n + 7 + dc), damage |-> NoDamage] :
              t \in 0 .. 4, p \in {RampPayload(n), ConstPayload(n, SOF)}, dc \in {-7, -1, 0, 1}} :
           n \in AnyLens}

\* a valid frame with one bit of type, seq, len or payload flipped on the link
FlipInputs ==
    UNION {{[in |-> FrameIn(t, 90, PayloadLenOf(t), RampPayload(PayloadLenOf(t)),
                            PayloadLenOf(t) + 7),
             damage |-> [kind |-> "flip", pos |-> i, val |-> b]] :
              i \in 2 .. 4 + PayloadLenOf(t), b \in 0 .. 7} :
           t \in ValidTypes}

\* a valid frame with one byte replaced on the link (SOF, header, CRC or EOF)
SetInputs ==
    UNION {{[in |-> FrameIn(t, 90, PayloadLenOf(t), p, PayloadLenOf(t) + 7),
             damage |-> [kind |-> "set", pos |-> i, val |-> v]] :
              i \in {1, 2, 4, PayloadLenOf(t) + 5, PayloadLenOf(t) + 6, PayloadLenOf(t) + 7},
              v \in {0, SOF, EOF_BYTE, TYPE_FFT, AUX_PAYLOAD_LEN},
              p \in {RampPayload(PayloadLenOf(t)), MarkerPayload(PayloadLenOf(t))}} :
           t \in ValidTypes}

CodecInputs == ValidInputs \cup AnyInputs \cup FlipInputs \cup SetInputs

DecoderInit ==
    /\ rxFifo = <<>>
    /\ rxBuffer = <<>>
    /\ elapsed = STALE_MS + 1
    /\ pc = "idle"
    /\ crcErrors = 0
    /\ dispatched = <<>>
    /\ staleDropped = <<>>
    /\ consumer = ConsumerBoot

CodecInit ==
    /\ scen \in CodecInputs
    /\ encRes = [ok |-> FALSE, out |-> <<>>, outLen |-> -1]
    /\ wire = <<>>
    /\ DecoderInit
    /\ EncInit
    /\ DspIdle

\* if (Proto::encodeFrame(type, seq, payload, len, frame, cap, frameLen))
\*     Serial2.write(frame, frameLen);
EncodeCall ==
    /\ encRes.outLen = -1
    /\ LET r == encodeFrame(scen.in.type, scen.in.seq, scen.in.payload,
                            scen.in.len, scen.in.cap)
       IN  /\ encRes' = r
           /\ wire' = IF r.ok THEN ApplyDamage(r.out, scen.damage) ELSE <<>>
    /\ UNCHANGED <<rxFifo, rxBuffer, elapsed, pc, crcErrors, dispatched, staleDropped, scen>>
    /\ UNCHANGED encVars
    /\ UNCHANGED loopVars
    /\ UNCHANGED renderVars
    /\ UNCHANGED consVars
    /\ UNCHANGED dspVars

CodecNext ==
    \/ EncodeCall
    \/ Arrive(Len(wire))
    \/ SvcEnter
    \/ SvcByte
    \/ SvcExit
    \/ Tick

SpecCodec == CodecInit /\ [][CodecNext]_vars

\* the analysis node on its own: nothing is on the link, the decoder is idle
LoopInit ==
    /\ scen = <<>>
    /\ encRes = [ok |-> FALSE, out |-> <<>>, outLen |-> -1]
    /\ wire = <<>>
    /\ DecoderInit
    /\ EncInit
    /\ DspIdle

SpecEnc == LoopInit /\ [][LoopPass]_vars

---------------------------------------------------------------------------
(* loop() of the analysis node with its command input read byte by byte *)

CommandBufSize == 64
MaxLineLen == 2
MaxCmdFifo == 3
MaxLoopSeq == 3

\* the upstream controller writes the next character of a command line: a
\* character of the text ("c") or, after at least one, the newline ("n")
UpstreamByte ==
    \E ch \in {"c", "n"} :
        /\ Len(cmdFifo) < MaxCmdFifo
        /\ IF ch = "c" THEN upLen < MaxLineLen ELSE upLen > 0
        /\ cmdFifo' = Append(cmdFifo, ch)
        /\ upLen' = IF ch = "c" THEN upLen + 1 ELSE 0
        /\ UNCHANGED <<wire, rxFifo, rxBuffer, elapsed, pc, crcErrors, dispatched,
                       staleDropped, scen, encRes, encPc, lineLen, analysed, pending>>
        /\ UNCHANGED encVars
        /\ UNCHANGED renderVars
        /\ UNCHANGED consVars
        /\ UNCHANGED dspVars

\* the rest of the pass once forwardESP32Commands has the line (cmdLine) or
\* found nothing to read: analysis if a window is available, transmit if due
FinishPass(cmdLine) ==
    \E fftAvailable \in BOOLEAN, raw \in RawWindows, frameDue \in BOOLEAN :
      \E st \in {LoopBody(NodeState, cmdLine, fftAvailable, raw, frameDue)} :
          /\ PassEffect(st, frameDue)
          /\ analysed' = fftAvailable
          /\ pending' = IF Seqs(st.sent, TYPE_FFT) # {} THEN FALSE
                        ELSE IF fftAvailable THEN hasSignal(st.amp) ELSE pending
          /\ encPc' = "top"
          /\ lineLen' = 0
          /\ UNCHANGED <<wire, rxFifo, rxBuffer, elapsed, pc, crcErrors, dispatched,
                         staleDropped, scen, encRes, upLen>>

\* loop() starts a pass: if (!Serial1.available()) return; else readBytesUntil
PassStart ==
    /\ encPc = "top"
    /\ fftSeq < MaxLoopSeq
    /\ cmdSeq < MaxLoopSeq
    /\ IF cmdFifo = <<>>
       THEN FinishPass(FALSE) /\ UNCHANGED cmdFifo
       ELSE /\ encPc' = "reading"
            /\ lineLen' = 0
            /\ UNCHANGED <<wire, rxFifo, rxBuffer, elapsed, pc, crcErrors, dispatched,
                           staleDropped, scen, encRes, cmdFifo, upLen, analysed, pending>>
            /\ UNCHANGED encVars
    /\ UNCHANGED renderVars
    /\ UNCHANGED consVars
    /\ UNCHANGED dspVars

\* readBytesUntil takes a character: the newline or a full buffer ends the read
ReadByte ==
    /\ encPc = "reading"
    /\ cmdFifo # <<>>
    /\ cmdFifo' = Tail(cmdFifo)
    /\ IF Head(cmdFifo) = "n"
       THEN FinishPass(TRUE)
       ELSE IF lineLen + 1 = CommandBufSize - 1
       THEN FinishPass(TRUE)
       ELSE /\ lineLen' = lineLen + 1
            /\ UNCHANGED <<wire, rxFifo, rxBuffer, elapsed, pc, crcErrors, dispatched,
                           staleDropped, scen, encRes, upLen, encPc, analysed, pending>>
            /\ UNCHANGED encVars
    /\ UNCHANGED renderVars
    /\ UNCHANGED consVars
    /\ UNCHANGED dspVars

\* readBytesUntil has nothing to take and the stream timeout expires: it
\* returns what it has
ReadTimeout ==
    /\ encPc = "reading"
    /\ cmdFifo = <<>>
    /\ FinishPass(TRUE)
    /\ UNCHANGED cmdFifo
    /\ UNCHANGED renderVars
    /\ UNCHANGED consVars
    /\ UNCHANGED dspVars

LoopNext ==
    \/ UpstreamByte
    \/ PassStart
    \/ ReadByte
    \/ ReadTimeout

SpecLoop == LoopInit /\ [][LoopNext]_vars


---------------------------------------------------------------------------
(* Streams: one damaged frame followed by valid frames, back to back *)

MaxTail == 2
BurstLen == 40

Item(t, p, d) == [in |-> FrameIn(t, 90, PayloadLenOf(t), p, PayloadLenOf(t) + 7),
                  damage |-> d]

\* the order in which a stream cycles through the frame types
NextType(t) == IF t = TYPE_FFT THEN TYPE_AUX
               ELSE IF t = TYPE_AUX THEN TYPE_CMD ELSE TYPE_FFT

TailPayload(t, marked) ==
    IF marked THEN MarkerPayload(PayloadLenOf(t)) ELSE RampPayload(PayloadLenOf(t))

RECURSIVE ValidTail(_, _, _)
ValidTail(t, marked, n) ==
    IF n = 0 THEN <<>>
    ELSE <<Item(t, TailPayload(t, marked), NoDamage)>> \o ValidTail(NextType(t), marked, n - 1)

\* tails without a SOF or EOF byte in the payloads, and one with both
ValidTails ==
    {ValidTail(t, FALSE, n) : t \in {TYPE_AUX, TYPE_CMD}, n \in 1 .. MaxTail}
    \cup {ValidTail(TYPE_AUX, TRUE, n) : n \in 1 .. MaxTail}

\* what the link does to the first frame: a payload byte, the length byte or
\* the EOF marker replaced; one byte, the SOF or the last 43 bytes lost
StreamDamages(n) ==
    {[kind |-> "set", pos |-> 10, val |-> 1],
     [kind |-> "set", pos |-> 4, val |-> 0],
     [kind |-> "set", pos |-> n, val |-> 0],
     [kind |-> "drop", pos |-> 12, val |-> 1],
     [kind |-> "drop", pos |-> 1, val |-> 1],
     [kind |-> "drop", pos |-> n - 42, val |-> 43]}

DamagedItems ==
    {Item(TYPE_FFT, RampPayload(FIXED_PAYLOAD_LEN), d) : d \in StreamDamages(FIXED_PAYLOAD_LEN + 7)}
    \cup
    {Item(TYPE_AUX, MarkerPayload(AUX_PAYLOAD_LEN), d) : d \in StreamDamages(AUX_PAYLOAD_LEN + 7)}
    \cup
    {Item(TYPE_FFT, HeaderPayload, [kind |-> "set", pos |-> 10, val |-> 1]),
     Item(TYPE_AUX, AuxHeaderPayload, [kind |-> "set", pos |-> 10, val |-> 1])}

StreamInputs == {<<d>> \o tail : d \in DamagedItems, tail \in ValidTails}

\* the bytes one item puts on the link
ItemBytes(it) ==
    ApplyDamage(encodeFrame(it.in.type, it.in.seq, it.in.payload, it.in.len, it.in.cap).out,
                it.damage)

RECURSIVE StreamBytes(_, _)
StreamBytes(items, i) ==
    IF i > Len(items) THEN <<>> ELSE ItemBytes(items[i]) \o StreamBytes(items, i + 1)

StreamInit ==
    /\ scen \in StreamInputs
    /\ encRes = [ok |-> FALSE, out |-> <<>>, outLen |-> -1]
    /\ wire = StreamBytes(scen, 1)
    /\ DecoderInit
    /\ EncInit
    /\ DspIdle

\* the UART delivers the next burst, or everything that is on the link
ArriveSizes == {IF Len(wire) < BurstLen THEN Len(wire) ELSE BurstLen, Len(wire)}

Next ==
    \/ \E k \in ArriveSizes : Arrive(k)
    \/ SvcEnter
    \/ SvcByte
    \/ SvcExit
    \/ Tick

Spec == StreamInit /\ [][Next]_vars

\* The rendering node's loop() runs forever and the UART delivers what is on
\* the link; time is only let pass once the link is idle.
LiveNext ==
    \/ \E k \in ArriveSizes : Arrive(k)
    \/ SvcEnter
    \/ SvcByte
    \/ SvcExit
    \/ (Tick /\ wire = <<>> /\ rxFifo = <<>>)

\* the steps of the while loop, told apart by the byte they take off the UART
ByteConsumed == pc = "loop" /\ rxFifo # <<>> /\ rxFifo' = Tail(rxFifo)

SpecLive ==
    /\ StreamInit
    /\ [][LiveNext]_vars
    /\ WF_vars(\E k \in ArriveSizes : Arrive(k))
    /\ WF_vars(SvcEnter)
    /\ WF_rxFifo(ByteConsumed)
    /\ WF_vars(SvcExit)

---------------------------------------------------------------------------
(* Claims about the codec (SpecCodec) *)

\* the encoder was called and every byte it wrote went through the decoder
CodecDone ==
    /\ encRes.outLen # -1
    /\ wire = <<>>
    /\ rxFifo = <<>>
    /\ pc = "idle"
    /\ elapsed <= STALE_MS

\* a frame of a known type with that type's exact payload length, undamaged
IsValidInput(sc) ==
    /\ sc.damage = NoDamage
    /\ sc.in.type \in ValidTypes
    /\ sc.in.len = PayloadLenOf(sc.in.type)
    /\ sc.in.cap >= sc.in.len + 7

\* C1: an undamaged frame of a known type and exact length, fed in order to the
\* decoder in SEEKING_SOF with an empty buffer, is dispatched exactly once, with
\* the same type and the same payload, and the decoder is back in SEEKING_SOF
\* with an empty buffer.
C1_RoundTrip ==
    IsValidInput(scen) =>
       /\ Len(dispatched) <= 1
       /\ CodecDone =>
            /\ Len(dispatched) = 1
            /\ dispatched[1].type = scen.in.type
            /\ dispatched[1].payload = scen.in.payload
            /\ rxBuffer = <<>>

C1_Witness ==
    /\ CodecDone
    /\ IsValidInput(scen)
    /\ scen.in.type = TYPE_AUX
    /\ scen.in.payload = MarkerPayload(AUX_PAYLOAD_LEN)
    /\ Len(dispatched) = 1

\* CRC16-CCITT from its parameters, one message bit at a time, MSB first:
\* polynomial 0x1021, initial value 0xFFFF, no final XOR
RefCrcBit(r, m) ==
    LET sh == (r * 2) % 65536
    IN  IF (r \div 32768) # m THEN Xor(sh, 4129) ELSE sh

RECURSIVE RefCrcBits(_, _, _)
RefCrcBits(r, byte, k) ==
    IF k = 0 THEN r
    ELSE LET next == RefCrcBit(r, (byte \div (2 ^ (k - 1))) % 2)
         IN  IF next \in 0 .. 65535 THEN RefCrcBits(next, byte, k - 1) ELSE next

RECURSIVE RefCrcFrom(_, _, _)
RefCrcFrom(r, data, i) ==
    IF i > Len(data) THEN r
    ELSE LET next == RefCrcBits(r, data[i], 8)
         IN  IF next \in 0 .. 65535 THEN RefCrcFrom(next, data, i + 1) ELSE next

RefCrc(data) == RefCrcFrom(65535, data, 1)

WellFormed(f) ==
    /\ Len(f) >= 7
    /\ f[1] = 170
    /\ <<f[2], f[4]>> \in {<<1, 68>>, <<2, 68>>, <<3, 36>>}
    /\ Len(f) >= 4 + f[4] + 3
    /\ f[4 + f[4] + 3] = 187
    /\ f[5 + f[4]] + 256 * f[6 + f[4]] = crc16_ccitt(SubSeq(f, 2, 4 + f[4]))

\* C5: every dispatch is of a buffer that starts with SOF, has a known
\* (type, length) pair, has EOF at the last position of the expected frame size
\* and carries the CRC16-CCITT of type, seq, len and payload, low byte first;
\* the consumer gets that type and that payload.
C5_DispatchOnlyChecked ==
    \A i \in 1 .. Len(dispatched) :
       /\ WellFormed(dispatched[i].frame)
       /\ dispatched[i].type = dispatched[i].frame[2]
       /\ dispatched[i].payload =
             SubSeq(dispatched[i].frame, 5, 4 + dispatched[i].frame[4])

\* a frame whose only defect is the EOF marker went through and nothing was dispatched
C5_Witness ==
    /\ CodecDone
    /\ scen.damage.kind = "set"
    /\ scen.damage.pos = scen.in.len + 7
    /\ scen.damage.val = 0
    /\ scen.in.payload = RampPayload(scen.in.len)
    /\ dispatched = <<>>

\* C6: a frame with one bit of type, seq, len or payload flipped on the link
\* (CRC bytes as transmitted) is never dispatched: the decoder hands nothing
\* to the consumer.
C6_NoBitFlipAccepted ==
    scen.damage.kind = "flip" => dispatched = <<>>

\* a frame with a flipped payload bit was read to its end and failed the CRC check
C6_Witness ==
    /\ scen.damage.kind = "flip"
    /\ scen.damage.pos > 4
    /\ encRes.ok
    /\ wire = <<>>
    /\ rxFifo = <<>>
    /\ pc = "loop"
    /\ crcErrors = 1
    /\ dispatched = <<>>

\* C8: with enough capacity encodeFrame writes len + 7 bytes: 0xAA, type, seq,
\* len, the payload unchanged, the CRC16-CCITT of type, seq, len and payload as
\* low byte then high byte, and 0xBB; with too little capacity it fails and
\* writes nothing.  ("123456789" has the CRC 0x29B1.)
C8_EncoderWireFormat ==
    (encRes.outLen # -1 /\ scen.damage = NoDamage /\ (wire # <<>> \/ ~encRes.ok)) =>
       LET i == scen.in
           ref == RefCrc(<<i.type, i.seq, i.len>> \o i.payload)
       IN  /\ crc16_ccitt(<<49, 50, 51, 52, 53, 54, 55, 56, 57>>) = 10673
           /\ IF i.cap >= i.len + 7
              THEN /\ encRes.ok
                   /\ encRes.outLen = i.len + 7
                   /\ encRes.out = <<170, i.type, i.seq, i.len>> \o i.payload
                                     \o <<ref % 256, ref \div 256, 187>>
                   /\ wire = encRes.out
              ELSE /\ ~encRes.ok
                   /\ encRes.out = <<>>
                   /\ wire = <<>>

C8_Witness ==
    /\ encRes.ok
    /\ wire = encRes.out
    /\ scen.damage = NoDamage
    /\ scen.in.len = FIXED_PAYLOAD_LEN
    /\ scen.in.payload = ConstPayload(FIXED_PAYLOAD_LEN, SOF)
    /\ Len(wire) = 75

---------------------------------------------------------------------------
(* Claims about streams (Spec, SpecLive) *)

\* every byte of the stream was consumed and the decoder is back in loop()
StreamDone == wire = <<>> /\ rxFifo = <<>> /\ pc = "idle"

\* frame i of the stream was handed to the consumer with its payload intact
Delivered(i) ==
    \E j \in 1 .. Len(dispatched) :
        /\ dispatched[j].type = scen[i].in.type
        /\ dispatched[j].payload = scen[i].in.payload

\* C2: for a stream [corrupted frame][valid frame] with no gap and no further
\* bytes, where the corrupted frame is complete but has a wrong byte, once the
\* decoder has consumed the stream (and no timeout discarded anything) the
\* valid frame has been dispatched with its payload intact.
C2_ResyncBoundedLoss ==
    (StreamDone /\ Len(scen) = 2 /\ scen[1].damage.kind = "set" /\ staleDropped = <<>>)
        => Delivered(2)

\* C3: with one damaged frame in a stream of valid frames, every frame other
\* than the damaged one has been dispatched once the stream is consumed and
\* the decoder holds no bytes (here for the runs in which no timeout fired).
C3_OneFrameLostPerCorruption ==
    (StreamDone /\ rxBuffer = <<>> /\ staleDropped = <<>>) =>
        \A i \in 2 .. Len(scen) : Delivered(i)

C7_StaleBufferCleared ==
    [][(pc = "idle" /\ pc' = "loop" /\ rxIndex > 0 /\ elapsed > STALE_MS)
        => /\ rxBuffer' = <<>>
           /\ crcErrors' = crcErrors
           /\ rxFifo' = rxFifo
           /\ dispatched' = dispatched]_vars

\* a buffer holding an embedded SOF was just dropped whole, with new bytes
\* waiting unread
C7_Witness ==
    /\ pc = "loop"
    /\ elapsed > STALE_MS
    /\ rxBuffer = <<>>
    /\ rxFifo # <<>>
    /\ FirstSofFrom(staleDropped, 2) > 0

---------------------------------------------------------------------------
(* Claims about the analysis node's loop (SpecEnc) *)

FrameTypes == {TYPE_FFT, TYPE_CMD, TYPE_AUX}

\* C9: a frame written for a type carries the seq of the previous frame written
\* for that type plus one modulo 256 (0 for the first), and the counter of a
\* type for which the pass wrote no frame is left as it was.
C9_SequenceCounters ==
    [][/\ \A t \in FrameTypes :
            Seqs(sent', t) # {} =>
                Seqs(sent', t) = {IF lastSeq[t] = -1 THEN 0 ELSE (lastSeq[t] + 1) % 256}
       /\ Seqs(sent', TYPE_FFT) = {} => fftSeq' = fftSeq
       /\ Seqs(sent', TYPE_CMD) = {} => cmdSeq' = cmdSeq
       /\ Seqs(sent', TYPE_AUX) = {} => auxSeq' = auxSeq]_vars

\* the feature and the command counter have both wrapped from 255 to 0
C9_Witness ==
    /\ prevSeq[TYPE_FFT] = 255
    /\ lastSeq[TYPE_FFT] = 0
    /\ prevSeq[TYPE_CMD] = 255
    /\ lastSeq[TYPE_CMD] = 0
    /\ Seqs(sent, TYPE_CMD) = {0}

\* C10: on a transmit tick a FEATURE frame is written iff some active band's
\* smoothed energy is above the threshold; with every band at or below it no
\* FEATURE frame is written and fftSeq keeps its value.
C10_SilenceGate ==
    [][txTick' =>
         /\ (Seqs(sent', TYPE_FFT) # {}) <=>
                (\E band \in Bands : smoothedBandAmplitude'[band] > SILENCE_THRESHOLD)
         /\ (\A band \in Bands : smoothedBandAmplitude'[band] <= SILENCE_THRESHOLD) =>
                (Seqs(sent', TYPE_FFT) = {} /\ fftSeq' = fftSeq)]_vars

\* a transmit tick with the loudest band exactly at the threshold, after
\* frames had been flowing: nothing was written
C10_Witness ==
    /\ txTick
    /\ sent = <<>>
    /\ smoothedBandAmplitude[activeBands] = SILENCE_THRESHOLD
    /\ wasTransmitting = FALSE
    /\ fftSeq > 0

---------------------------------------------------------------------------
(* Claims about loop() with its command input (SpecLoop) *)

\* positions of the frames of a type among the frames a pass wrote
FramesOf(frames, type) == {j \in 1 .. Len(frames) : frames[j].type = type}

\* C11: the pass in which readBytesUntil returns writes exactly one COMMAND
\* frame, carrying cmdSeq, whatever the silence gate does in that pass; a pass
\* that reads no line leaves cmdSeq alone.
C11_CommandsNotGated ==
    [][/\ (encPc = "reading" /\ encPc' = "top") =>
            (Cardinality(FramesOf(sent', TYPE_CMD)) = 1 /\ Seqs(sent', TYPE_CMD) = {cmdSeq})
       /\ (encPc = "top" /\ encPc' = "top") => cmdSeq' = cmdSeq]_vars

\* a transmit tick with the gate closed after frames had been flowing: the
\* pass wrote the command frame and nothing else
C11_Witness ==
    /\ encPc = "top"
    /\ txTick
    /\ ~hasSignal(smoothedBandAmplitude)
    /\ fftSeq > 0
    /\ FramesOf(sent, TYPE_CMD) = {1}
    /\ Len(sent) = 1

\* a step that completes a pass of loop()
PassEnded == encPc' = "top" /\ Len(cmdFifo') <= Len(cmdFifo)

\* C12: no window's features that pass the gate are replaced by the next
\* window's before a FEATURE frame has carried them, and every FEATURE frame
\* carries the features of a window no frame has carried yet.
C12_OncePerAnalysisTick ==
    [][/\ (PassEnded /\ analysed') => ~pending
       /\ (PassEnded /\ FramesOf(sent', TYPE_FFT) # {}) => (analysed' \/ pending)]_vars

\* C13: the node is never inside the read of a command line with nothing left
\* to read, i.e. a pass never waits for input bytes before it reaches analysis
\* and the transmit tick.
C13_NoBlockingRead == ~(encPc = "reading" /\ cmdFifo = <<>>)

(***************************************************************************)
(* Rendering node: loop(), handleLEDModes() and the render loops of music, *)
(* pattern and art mode.  A decoded COMMAND frame and a USB command line   *)
(* both end in switchToMode(), so one input stands for either.             *)
(***************************************************************************)
NoCmd == [mode |-> "-", pattern |-> 0]

ModeChars == {"0", "S", "P", "M", "A"}

PatternSamples == {0, 1, 6}

Commands == {[mode |-> md, pattern |-> pt] : md \in ModeChars, pt \in PatternSamples}

\* Variant of serviceInputs whose result never asks the loop to stop.
serviceInputsIgnored(flag) == FALSE

\* serviceInputs(): after both inputs were processed the result is the flag.
serviceInputs(flag) == flag

\* The render loop handleLEDModes() enters for a mode and pattern:
\* music mode always loops, runPattern() loops for patterns 0..5,
\* showArt() for pattern 0; every other case returns at once.
LoopOf(md, pt) ==
    IF md = "M" THEN "M"
    ELSE IF md = "P" THEN (IF pt \in 0 .. 5 THEN "P" ELSE "none")
    ELSE IF md = "A" THEN (IF pt = 0 THEN "A" ELSE "none")
    ELSE "none"

\* processUsbSerialCommands(); processSerialData(): a command, when one
\* has arrived, goes through applyCommandPayload() to switchToMode().
ProcessInputs(cmd) ==
    IF cmd = NoCmd
    THEN UNCHANGED <<rMode, rPattern, serialDataPending>>
    ELSE /\ rMode' = cmd.mode
         /\ rPattern' = cmd.pattern
         /\ serialDataPending' = TRUE

RenderIdle ==
    /\ UNCHANGED decVars
    /\ UNCHANGED consVars
    /\ UNCHANGED <<wire, scen, encRes>>
    /\ UNCHANGED encVars
    /\ UNCHANGED loopVars
    /\ UNCHANGED dspVars

\* One pass of loop(): service both inputs, then run the mode handler
\* when a render is due.
MainPass ==
    /\ rPc = "main"
    /\ \E cmd \in Commands \cup {NoCmd}, due \in BOOLEAN :
        /\ ProcessInputs(cmd)
        /\ IF due
           THEN /\ inLoop' = LoopOf(rMode', rPattern')
                /\ rPc' = IF inLoop' = "none" THEN "return" ELSE "yield"
           ELSE /\ rPc' = "main"
                /\ inLoop' = "none"
        /\ serviced' = FALSE
        /\ cmdInLoop' = FALSE
    /\ RenderIdle

\* handleLEDModes() has returned: the flag is cleared.
HandlerReturn ==
    /\ rPc = "return"
    /\ serialDataPending' = FALSE
    /\ rPc' = "main"
    /\ inLoop' = "none"
    /\ serviced' = FALSE
    /\ cmdInLoop' = FALSE
    /\ UNCHANGED <<rMode, rPattern>>
    /\ RenderIdle

\* Top of a render-loop iteration: service the inputs, break on the flag.
LoopYield ==
    /\ rPc = "yield"
    /\ \E cmd \in Commands \cup {NoCmd} :
        /\ ProcessInputs(cmd)
        /\ cmdInLoop' = IF cmd = NoCmd THEN cmdInLoop ELSE TRUE
    /\ serviced' = TRUE
    /\ rPc' = IF serviceInputs(serialDataPending') THEN "return" ELSE "render"
    /\ UNCHANGED inLoop
    /\ RenderIdle

\* The body of an iteration.  Music mode draws only when a frame is due,
\* its visualizations service the decoder while drawing and return early
\* on the flag, and the iteration ends there.  Pattern and art mode draw,
\* show the frame and go on to the delay.
Render ==
    /\ rPc = "render"
    /\ IF inLoop = "M"
       THEN /\ \E cmd \in Commands \cup {NoCmd}, due \in BOOLEAN :
                IF due
                THEN /\ ProcessInputs(cmd)
                     /\ cmdInLoop' = IF cmd = NoCmd THEN cmdInLoop ELSE TRUE
                ELSE UNCHANGED <<rMode, rPattern, serialDataPending, cmdInLoop>>
            /\ rPc' = "yield"
            /\ serviced' = FALSE
       ELSE /\ rPc' = "delay"
            /\ UNCHANGED <<rMode, rPattern, serialDataPending, cmdInLoop, serviced>>
    /\ UNCHANGED inLoop
    /\ RenderIdle

\* One millisecond of responsiveDelay(): when the time is up the iteration
\* ends, else the inputs are serviced and the flag ends the loop.
DelayStep ==
    /\ rPc = "delay"
    /\ \E cmd \in Commands \cup {NoCmd}, timeUp \in BOOLEAN :
        IF timeUp
        THEN /\ rPc' = "yield"
             /\ serviced' = FALSE
             /\ UNCHANGED <<rMode, rPattern, serialDataPending, cmdInLoop>>
        ELSE /\ ProcessInputs(cmd)
             /\ cmdInLoop' = IF cmd = NoCmd THEN cmdInLoop ELSE TRUE
             /\ rPc' = IF serviceInputs(serialDataPending') THEN "return" ELSE "delay"
             /\ UNCHANGED serviced
    /\ UNCHANGED inLoop
    /\ RenderIdle

RenderNext == MainPass \/ HandlerReturn \/ LoopYield \/ Render \/ DelayStep

SpecRender == LoopInit /\ [][RenderNext]_vars

\* C14: in every iteration of a render loop (music, pattern or art mode)
\* the decoder is serviced at least once before the iteration ends, and
\* once a command has been decoded inside the loop no further render
\* iteration starts: the loop is left first.
C14_CooperativeYield ==
    [][/\ (rPc \in {"render", "delay"} /\ rPc' = "yield") => serviced
       /\ (rPc # "render" /\ rPc' = "render") => ~cmdInLoop'
       /\ (cmdInLoop /\ rPc \in {"yield", "delay"}) => rPc' = "return"]_vars

\* A command was decoded during the delay of a pattern loop, after at
\* least one frame was rendered, and the loop was left.
C14_Witness ==
    /\ rPc = "return"
    /\ inLoop = "P"
    /\ cmdInLoop
    /\ serviced
    /\ rMode = "M"

(***************************************************************************)
(* Vocal envelope, onset and sustain detector: calculateVocalEnvelope().   *)
(* Envelope values are in hundredths of the float range 0..1; the gated,   *)
(* scaled and clamped envelope of a window is the input of a tick.         *)
(***************************************************************************)
VOCAL_ATTACK == 45

VOCAL_RELEASE == 12

VOCAL_HIT_THRESH == 12

VOCAL_HIT_SLOPE == 2

VOCAL_MIN_GAP_MS == 80

VOCAL_NOTE_MIN_STRENGTH == 40

VOCAL_NOTE_CAPTURE_FRAMES == 10

VOCAL_SUSTAIN_THRESH == 10

VOCAL_SUSTAIN_RELEASE == 6

VOCAL_SUSTAIN_STABLE_FRAMES == 4

NoNote == 255

\* Bound of the model: the number of windows analysed.
MaxTicks == 8

\* The clock when the first window is analysed: the delays of setup().
BootMs == 3800

\* Milliseconds between two analysed windows.
TickGaps == {12}

\* Envelope inputs: silence, between release and engage, just above
\* engage, loud.
EnvSamples == {0, 8, 23, 100}

\* dominantPitch and dominantPitchStrength as calculateChroma() left them.
PitchSamples ==
    { [pitch |-> NoNote, strength |-> 0],
      [pitch |-> 5, strength |-> 90],
      [pitch |-> 5, strength |-> 39],
      [pitch |-> 7, strength |-> 90] }

\* Variant of the refractory test that lets every rise through.
refractoryElapsedAlways(now, last) == TRUE

\* now - lastSyllableMs > VOCAL_MIN_GAP_MS; the uint32_t difference is the
\* elapsed time, the clock staying far below 2^32.
refractoryElapsed(now, last) == now - last > VOCAL_MIN_GAP_MS

\* sustainStableCount >= VOCAL_SUSTAIN_STABLE_FRAMES
sustainStable(count) == count >= VOCAL_SUSTAIN_STABLE_FRAMES

\* Variant of the release test that releases below the engage threshold.
sustainReleasedBelowEngage(envSmoothed) == envSmoothed < VOCAL_SUSTAIN_THRESH

\* vocalEnvSmoothed <= VOCAL_SUSTAIN_RELEASE
sustainReleased(envSmoothed) == envSmoothed <= VOCAL_SUSTAIN_RELEASE

\* The statics of the detector before the first window.
VocalStatics ==
    [ vocalEnvSmoothed |-> 0, vocalEnvPrev |-> 0, vocalSyllableHit |-> 0,
      vocalNoteOut |-> NoNote, vocalNoteStrengthOut |-> 0,
      lastSyllableMs |-> 0, lastSyllableNote |-> NoNote,
      lastSyllableStrength |-> 0, vocalNoteCaptureRemaining |-> 0,
      vocalSustain |-> 0, sustainCandidate |-> NoNote,
      sustainStableCount |-> 0 ]

\* Asymmetric smoothing of the envelope, clamped at 0.
SmoothEnv(smoothed, env) ==
    LET coeff == IF env > smoothed THEN VOCAL_ATTACK ELSE VOCAL_RELEASE
        next == smoothed + ((env - smoothed) * coeff) \div 100
    IN  IF next < 0 THEN 0 ELSE next

\* The onset part: hit test, note capture on the hit, late capture in the
\* frames after it.
VocalOnset(v, smoothed, now, curPitch, curStrength) ==
    LET delta == smoothed - v.vocalEnvPrev
        hit == IF smoothed > VOCAL_HIT_THRESH
               THEN (IF delta > VOCAL_HIT_SLOPE
                     THEN refractoryElapsed(now, v.lastSyllableMs)
                     ELSE FALSE)
               ELSE FALSE
        v1 == [v EXCEPT !.vocalEnvSmoothed = smoothed,
                        !.vocalSyllableHit = IF hit THEN 1 ELSE 0]
    IN  IF hit
        THEN LET note == IF curPitch < 12 THEN curPitch
                         ELSE IF v.vocalSustain = 0 THEN NoNote
                         ELSE v.vocalNoteOut
                 strength == IF curPitch < 12 THEN curStrength
                             ELSE IF v.vocalSustain = 0 THEN 0
                             ELSE v.vocalNoteStrengthOut
             IN  [v1 EXCEPT !.lastSyllableMs = now,
                            !.vocalNoteCaptureRemaining =
                                IF curPitch < 12 THEN 0
                                ELSE VOCAL_NOTE_CAPTURE_FRAMES,
                            !.vocalNoteOut = note,
                            !.vocalNoteStrengthOut = strength,
                            !.lastSyllableNote = note,
                            !.lastSyllableStrength = strength]
        ELSE IF v.vocalNoteCaptureRemaining > 0
        THEN IF curPitch < 12
             THEN [v1 EXCEPT !.vocalNoteOut = curPitch,
                             !.vocalNoteStrengthOut = curStrength,
                             !.lastSyllableNote = curPitch,
                             !.lastSyllableStrength = curStrength,
                             !.vocalNoteCaptureRemaining = 0]
             ELSE [v1 EXCEPT !.vocalNoteCaptureRemaining = @ - 1]
        ELSE v1

\* The sustain part: count stable frames and engage, or release.
VocalSustain(v, curPitch, curStrength) ==
    IF v.vocalEnvSmoothed >= VOCAL_SUSTAIN_THRESH /\ curPitch < 12
    THEN LET count == IF curPitch = v.sustainCandidate
                      THEN (IF v.sustainStableCount < 255
                            THEN v.sustainStableCount + 1
                            ELSE v.sustainStableCount)
                      ELSE 1
             v1 == [v EXCEPT !.sustainCandidate = curPitch,
                             !.sustainStableCount = count]
         IN  IF sustainStable(count)
             THEN [v1 EXCEPT !.vocalSustain = 1,
                             !.vocalNoteOut = curPitch,
                             !.vocalNoteStrengthOut = curStrength]
             ELSE v1
    ELSE IF sustainReleased(v.vocalEnvSmoothed)
    THEN [v EXCEPT !.vocalSustain = 0,
                   !.sustainCandidate = NoNote,
                   !.sustainStableCount = 0,
                   !.vocalNoteOut = NoNote,
                   !.vocalNoteStrengthOut = 0]
    ELSE v

\* calculateVocalEnvelope() for one window, from the smoothing on.
calculateVocalEnvelope(v, env, now, dominantPitch, dominantPitchStrength) ==
    LET smoothed == SmoothEnv(v.vocalEnvSmoothed, env)
        confident == IF dominantPitch < 12
                     THEN dominantPitchStrength >= VOCAL_NOTE_MIN_STRENGTH
                     ELSE FALSE
        curPitch == IF confident THEN dominantPitch ELSE NoNote
        curStrength == IF confident THEN dominantPitchStrength ELSE 0
        v2 == VocalSustain(VocalOnset(v, smoothed, now, curPitch, curStrength),
                           curPitch, curStrength)
    IN  [v2 EXCEPT !.vocalEnvPrev = v2.vocalEnvSmoothed]

\* The clock, the number of windows analysed and what an observer of the outputs remembers: the ticks
\* since the most recent onset (-1 before the first, counted up to one
\* past the capture window), the time of that onset, the time between
\* the two most recent onsets (-1 before the second), and the run of
\* consecutive windows with one confident pitch at or above the engage
\* threshold, and whether the most recent onset is still without a
\* confident pitch.
VocalObserver ==
    [ now |-> BootMs, ticks |-> 0, sinceOnset |-> -1, lastOnsetMs |-> -1, onsetGap |-> -1,
      runPitch |-> NoNote, runLen |-> 0, awaiting |-> FALSE ]

Observe(old, v, now, dominantPitch, dominantPitchStrength) ==
    LET qualifies == /\ v.vocalEnvSmoothed >= VOCAL_SUSTAIN_THRESH
                     /\ dominantPitch < 12
                     /\ dominantPitchStrength >= VOCAL_NOTE_MIN_STRENGTH
        onset == v.vocalSyllableHit = 1
        confident == /\ dominantPitch < 12
                     /\ dominantPitchStrength >= VOCAL_NOTE_MIN_STRENGTH
    IN  [v EXCEPT
          !.awaiting = IF onset THEN ~confident
                       ELSE IF confident THEN FALSE
                       ELSE old.awaiting,
          !.now = now,
          !.ticks = old.ticks + 1,
          !.sinceOnset = IF onset THEN 0
                         ELSE IF old.sinceOnset < 0 THEN old.sinceOnset
                         ELSE IF old.sinceOnset > VOCAL_NOTE_CAPTURE_FRAMES
                         THEN old.sinceOnset
                         ELSE old.sinceOnset + 1,
          !.lastOnsetMs = IF onset THEN now ELSE old.lastOnsetMs,
          !.onsetGap = IF onset /\ old.lastOnsetMs >= 0
                       THEN now - old.lastOnsetMs
                       ELSE old.onsetGap,
          !.runPitch = IF qualifies THEN dominantPitch ELSE NoNote,
          !.runLen = IF ~qualifies THEN 0
                     ELSE IF dominantPitch # old.runPitch THEN 1
                     ELSE IF old.runLen >= VOCAL_SUSTAIN_STABLE_FRAMES
                     THEN old.runLen
                     ELSE old.runLen + 1 ]

VocalInit ==
    /\ scen = <<>>
    /\ encRes = [ok |-> FALSE, out |-> <<>>, outLen |-> -1]
    /\ wire = <<>>
    /\ DecoderInit
    /\ EncInit
    /\ vocal = VocalStatics @@ VocalObserver
    /\ dsp = <<>>

\* One analysed window: the clock has advanced, calculateChroma() has left
\* its dominant pitch, calculateVocalEnvelope() runs.
VocalTick ==
    /\ \E gap \in TickGaps, env \in EnvSamples, p \in PitchSamples :
        /\ vocal.ticks < MaxTicks
        /\ \E now \in {vocal.now + gap} :
            vocal' = Observe(vocal,
                             calculateVocalEnvelope(vocal, env, now, p.pitch, p.strength),
                             now, p.pitch, p.strength)
    /\ UNCHANGED decVars
    /\ UNCHANGED <<wire, scen, encRes, dsp>>
    /\ UNCHANGED encVars
    /\ UNCHANGED loopVars
    /\ UNCHANGED renderVars
    /\ UNCHANGED consVars

SpecVocal == VocalInit /\ [][VocalTick]_vars

\* C15: any two onset events are more than the refractory interval
\* (80 ms) apart, however many windows are analysed inside the interval.
C15_OnsetDebounced ==
    vocal.onsetGap # -1 => vocal.onsetGap > VOCAL_MIN_GAP_MS

\* A second onset has happened, and the envelope was elevated with
\* windows analysed between the two.
C15_Witness ==
    /\ vocal.onsetGap > VOCAL_MIN_GAP_MS
    /\ vocal.vocalSyllableHit = 1
    /\ vocal.vocalEnvSmoothed > VOCAL_HIT_THRESH

\* C16: the sustain flag goes from 0 to 1 only on a window that completes
\* 4 consecutive windows with the same confident pitch class and the
\* smoothed envelope at or above the engage threshold.
C16_SustainEntry ==
    [][(vocal.vocalSustain = 0 /\ vocal'.vocalSustain = 1)
          => vocal'.runLen >= VOCAL_SUSTAIN_STABLE_FRAMES]_vars

\* C17: a set sustain flag stays set on every window with the smoothed
\* envelope above the release threshold, is cleared together with the
\* candidate, the stable count and the note on the first window at or
\* below it, and no window with the envelope strictly between the two
\* thresholds changes the flag.
C17_SustainHysteresis ==
    [][/\ (vocal.vocalSustain = 1 /\ vocal'.vocalEnvSmoothed > VOCAL_SUSTAIN_RELEASE)
            => vocal'.vocalSustain = 1
       /\ (vocal.vocalSustain = 1 /\ vocal'.vocalEnvSmoothed <= VOCAL_SUSTAIN_RELEASE)
            => /\ vocal'.vocalSustain = 0
               /\ vocal'.sustainCandidate = NoNote
               /\ vocal'.sustainStableCount = 0
               /\ vocal'.vocalNoteOut = NoNote
       /\ (/\ vocal'.vocalEnvSmoothed > VOCAL_SUSTAIN_RELEASE
           /\ vocal'.vocalEnvSmoothed < VOCAL_SUSTAIN_THRESH)
            => vocal'.vocalSustain = vocal.vocalSustain]_vars

\* The flag is set and the last window left the envelope strictly
\* between the release and the engage threshold.
C17_Witness ==
    /\ vocal.vocalSustain = 1
    /\ vocal.vocalEnvSmoothed > VOCAL_SUSTAIN_RELEASE
    /\ vocal.vocalEnvSmoothed < VOCAL_SUSTAIN_THRESH

\* A held sound: every window has the envelope input well above the
\* engage threshold.
HeldEnvSamples == {23, 100}

\* Bound of the model: the number of windows of a held sound.
MaxHeldTicks == 12

HeldTick ==
    /\ \E gap \in TickGaps, env \in HeldEnvSamples, p \in PitchSamples :
        /\ vocal.ticks < MaxHeldTicks
        /\ \E now \in {vocal.now + gap} :
            vocal' = Observe(vocal,
                             calculateVocalEnvelope(vocal, env, now, p.pitch, p.strength),
                             now, p.pitch, p.strength)
    /\ UNCHANGED decVars
    /\ UNCHANGED <<wire, scen, encRes, dsp>>
    /\ UNCHANGED encVars
    /\ UNCHANGED loopVars
    /\ UNCHANGED renderVars
    /\ UNCHANGED consVars

SpecVocalHeld == VocalInit /\ [][HeldTick]_vars

\* C18: on every window more than the capture window (10 windows) after
\* the most recent onset the reported note is none (255) unless the
\* sustain flag is set.
C18_NoteRevertsAfterCapture ==
    vocal.sinceOnset > VOCAL_NOTE_CAPTURE_FRAMES
        => (vocal.vocalNoteOut = NoNote \/ vocal.vocalSustain = 1)

(***************************************************************************)
(* Chroma and dominant pitch: calculateChroma().  Chroma values are in     *)
(* ten-thousandths; the input of a window is chromaRaw after the square    *)
(* root, one value per pitch class.                                        *)
(***************************************************************************)
NUM_PITCH_CLASSES == 12

\* chromaSmoothFactor, in tenths
chromaSmoothFactor == 3

\* The guard 0.001f of the two divisions
ChromaEpsilon == 10

\* chromaOut[maxIdx] > 30
ChromaFloor == 30

PitchClasses == 0 .. NUM_PITCH_CLASSES - 1

\* Bound of the model: the number of windows analysed.
MaxChromaTicks == 3

\* A spectrum with one pitch class at a level over a floor.
RawTone(k, level, floor) == [i \in PitchClasses |-> IF i = k THEN level ELSE floor]

\* Silence, a quiet pure tone, loud and mild tones over a floor, a flat
\* spectrum, a tone barely above the floor, and two equal tones.
RawChromas ==
    {RawTone(0, 0, 0), RawTone(9, 50, 0), RawTone(0, 1000, 1000)}
    \cup {RawTone(k, 5000, 500) : k \in {0, 9}}
    \cup {RawTone(k, 2000, 1000) : k \in {4, 11}}
    \cup {RawTone(9, 1300, 1000)}
    \cup {[i \in PitchClasses |-> IF i \in {2, 7} THEN 3000 ELSE 300]}

RECURSIVE SumTo(_, _)
SumTo(f, i) == IF i < 0 THEN 0 ELSE f[i] + SumTo(f, i - 1)

MaxOf(f) == CHOOSE x \in {f[i] : i \in PitchClasses} : \A i \in PitchClasses : f[i] <= x

\* The loop of maxIdx: the first class holding the largest chromaOut.
FirstMaxIdx(out) ==
    CHOOSE i \in PitchClasses :
        /\ \A j \in PitchClasses : out[j] <= out[i]
        /\ \A j \in 0 .. i - 1 : out[j] < out[i]

\* Variant of the confidence test that accepts any peak above the average.
peakRatioConfidentAbove1(peak, total) == peak * NUM_PITCH_CLASSES > total

\* peakRatio > 1.5f, with peakRatio = peak / (total / 12)
peakRatioConfident(peak, total) == 2 * peak * NUM_PITCH_CLASSES > 3 * total

\* (int)((peakRatio - 1.0f) * 100.0f)
peakStrength(peak, total) == (100 * peak * NUM_PITCH_CLASSES) \div total - 100

ChromaStatics ==
    [ chromaSmoothed |-> [i \in PitchClasses |-> 0],
      chromaOut |-> [i \in PitchClasses |-> 0],
      dominantPitch |-> NoNote, dominantPitchStrength |-> 0, ticks |-> 0 ]

calculateChroma(c, raw) ==
    LET smoothed == [i \in PitchClasses |->
                        (chromaSmoothFactor * c.chromaSmoothed[i]
                         + (10 - chromaSmoothFactor) * raw[i]) \div 10]
        totalChroma == SumTo(smoothed, NUM_PITCH_CLASSES - 1)
        maxChroma == MaxOf(smoothed)
        out == [i \in PitchClasses |->
                   IF maxChroma > ChromaEpsilon
                   THEN (smoothed[i] * 255) \div maxChroma
                   ELSE 0]
        maxIdx == FirstMaxIdx(out)
        \* avgChroma > 0.001f, else peakRatio is 0
        avgAbove == totalChroma > ChromaEpsilon * NUM_PITCH_CLASSES
        confident == IF out[maxIdx] > ChromaFloor
                     THEN (IF avgAbove
                           THEN peakRatioConfident(smoothed[maxIdx], totalChroma)
                           ELSE FALSE)
                     ELSE FALSE
        strength == IF confident THEN peakStrength(smoothed[maxIdx], totalChroma) ELSE 0
    IN  [ chromaSmoothed |-> smoothed,
          chromaOut |-> out,
          dominantPitch |-> IF confident THEN maxIdx ELSE NoNote,
          dominantPitchStrength |-> IF strength > 255 THEN 255 ELSE strength,
          ticks |-> c.ticks + 1 ]

ChromaInit ==
    /\ scen = <<>>
    /\ encRes = [ok |-> FALSE, out |-> <<>>, outLen |-> -1]
    /\ wire = <<>>
    /\ DecoderInit
    /\ EncInit
    /\ vocal = <<>>
    /\ dsp = ChromaStatics

\* One analysed window: calculateChroma() runs on its spectrum.
ChromaTick ==
    /\ dsp.ticks < MaxChromaTicks
    /\ \E raw \in RawChromas : dsp' = calculateChroma(dsp, raw)
    /\ UNCHANGED decVars
    /\ UNCHANGED <<wire, scen, encRes, vocal>>
    /\ UNCHANGED encVars
    /\ UNCHANGED loopVars
    /\ UNCHANGED renderVars
    /\ UNCHANGED consVars

SpecChroma == ChromaInit /\ [][ChromaTick]_vars

\* The decision as the claim states it, from the outputs alone: the
\* arg-max class, its 8-bit value, and peakRatio as the quotient of the
\* smoothed peak and the mean of the twelve smoothed values, compared as
\* fractions.
RefArgMax ==
    CHOOSE i \in PitchClasses :
        /\ \A j \in PitchClasses : dsp.chromaOut[j] <= dsp.chromaOut[i]
        /\ \A j \in PitchClasses : dsp.chromaOut[j] = dsp.chromaOut[i] => i <= j

RefTotal ==
    LET s == dsp.chromaSmoothed
    IN  s[0] + s[1] + s[2] + s[3] + s[4] + s[5] + s[6] + s[7] + s[8] + s[9] + s[10] + s[11]

RefRatioAbove(num, den) ==
    /\ RefTotal > 0
    /\ den * 12 * dsp.chromaSmoothed[RefArgMax] > num * RefTotal

\* x is min(255, (peakRatio - 1) * 100) cut to an integer.
RefStrengthIs(x) ==
    LET scaled == 1200 * dsp.chromaSmoothed[RefArgMax]
    IN  IF x = 255
        THEN scaled >= 355 * RefTotal
        ELSE /\ (x + 100) * RefTotal <= scaled
             /\ scaled < (x + 101) * RefTotal

RefDecision(reported) ==
    IF reported
    THEN /\ dsp.dominantPitch = RefArgMax
         /\ RefStrengthIs(dsp.dominantPitchStrength)
    ELSE /\ dsp.dominantPitch = NoNote
         /\ dsp.dominantPitchStrength = 0

\* C19 as stated: after each chroma update the dominant pitch is the
\* arg-max class exactly when its 8-bit value exceeds 30 and peakRatio
\* exceeds 1.5, with strength min(255, (peakRatio - 1) * 100); otherwise
\* the output is 255 with strength 0.
C19_DominantPitchAsStated ==
    dsp.ticks > 0 =>
        RefDecision(dsp.chromaOut[RefArgMax] > ChromaFloor /\ RefRatioAbove(3, 2))

\* C19 amended: as stated, with the mean of the smoothed values also above
\* 0.001; at or below it no class is reported whatever the ratio.
C19_DominantPitch ==
    dsp.ticks > 0 =>
        RefDecision(/\ dsp.chromaOut[RefArgMax] > ChromaFloor
                    /\ RefTotal > ChromaEpsilon * 12
                    /\ RefRatioAbove(3, 2))

\* A class is reported with a strength below the cap.
C19_Witness ==
    /\ dsp.ticks > 0
    /\ dsp.dominantPitch \in PitchClasses
    /\ dsp.dominantPitchStrength > 0
    /\ dsp.dominantPitchStrength < 255

\* No class is reported although the peak is above the floor: the ratio
\* is too small.
C19_WitnessRejected ==
    /\ dsp.ticks > 0
    /\ dsp.dominantPitch = NoNote
    /\ dsp.chromaOut[RefArgMax] > ChromaFloor
    /\ RefTotal > ChromaEpsilon * 12

(***************************************************************************)
(* Band smoothing under a constant input.  One band is followed; energies  *)
(* are multiples of 20^MaxSmoothTicks units, so that every division of the *)
(* bounded run is exact, as it is in real arithmetic.                      *)
(***************************************************************************)
\* Bound of the model: the number of windows analysed.
MaxSmoothTicks == 4

RECURSIVE Power(_, _)
Power(b, n) == IF n = 0 THEN 1 ELSE b * Power(b, n - 1)

EnergyLevels == {k * Power(20, MaxSmoothTicks) : k \in {0, 1, 3, 6}}

Magnitude(v) == IF v < 0 THEN -v ELSE v

\* x is the constant input, smoothed the band's smoothed value, baseline
\* the value the same band has when every window carries x, start the
\* smoothed value before the first window, input the last window's energy,
\* transient whether a window other than x has been analysed.
SmoothInit ==
    /\ scen = <<>>
    /\ encRes = [ok |-> FALSE, out |-> <<>>, outLen |-> -1]
    /\ wire = <<>>
    /\ DecoderInit
    /\ EncInit
    /\ vocal = <<>>
    /\ \E x \in EnergyLevels, s0 \in EnergyLevels :
        dsp = [x |-> x, smoothed |-> s0, baseline |-> s0, start |-> s0,
               input |-> x, transient |-> FALSE, ticks |-> 0]

\* One analysed window: the band's calibrated energy is x, or once
\* another level, and the smoothing line runs.
SmoothTick ==
    /\ dsp.ticks < MaxSmoothTicks
    /\ \E calibratedEnergy \in IF dsp.transient THEN {dsp.x} ELSE EnergyLevels :
        dsp' = [dsp EXCEPT
                  !.smoothed = Smooth(dsp.smoothed, calibratedEnergy),
                  !.baseline = Smooth(dsp.baseline, dsp.x),
                  !.input = calibratedEnergy,
                  !.transient = IF calibratedEnergy = dsp.x THEN dsp.transient ELSE TRUE,
                  !.ticks = dsp.ticks + 1]
    /\ UNCHANGED decVars
    /\ UNCHANGED <<wire, scen, encRes, vocal>>
    /\ UNCHANGED encVars
    /\ UNCHANGED loopVars
    /\ UNCHANGED renderVars
    /\ UNCHANGED consVars

SpecSmooth == SmoothInit /\ [][SmoothTick]_vars

\* C20: on every window with the input at x the smoothed value moves
\* toward x without passing it and the remaining error is 0.15 times the
\* error before, so that after n such windows from the start the error is
\* the initial error times 0.15^n and the windows needed for a tolerance
\* depend on the factor and the initial error alone; on every window after
\* a one-window transient the transient's contribution, the distance from
\* the run without it, decreases.
C20_SmoothingConvergence ==
    [][dsp'.input = dsp.x =>
          LET err == dsp.smoothed - dsp.x
              errNext == dsp'.smoothed - dsp.x
              contrib == Magnitude(dsp.smoothed - dsp.baseline)
              contribNext == Magnitude(dsp'.smoothed - dsp'.baseline)
          IN  /\ 100 * errNext = 15 * err
              /\ IF err >= 0
                 THEN 0 <= errNext /\ errNext <= err
                 ELSE err <= errNext /\ errNext <= 0
              /\ ~dsp'.transient =>
                    errNext = ((dsp.start - dsp.x) \div Power(20, dsp'.ticks))
                                  * Power(3, dsp'.ticks)
              /\ IF contrib > 0 THEN contribNext < contrib ELSE contribNext = 0]_vars

\* Windows with the input at x have followed a transient and its
\* contribution has not died out yet.
C20_Witness ==
    /\ dsp.transient
    /\ dsp.input = dsp.x
    /\ dsp.ticks >= 3
    /\ dsp.smoothed # dsp.baseline
    /\ dsp.baseline # dsp.x

(***************************************************************************)
(* Visual bands: calculateVisualBands().  Band energies are in hundredths, *)
(* levels in ten-thousandths of the float range 0..1, the logarithm is     *)
(* the binary one in fixed point.                                          *)
(***************************************************************************)
BANDS_12 == 12

\* VIS_SCALE * VIS_LOG_K, in hundred-thousandths
VisScaleLogK == 75

VIS_LOG_K == 15

VIS_DELTA_GAIN == 4

VIS_FLUX_GAIN == 3

\* PEAK_AVG_ALPHA, PEAK_DETECT_RATIO and PEAK_DETECT_MIN, in hundredths and tenths
PEAK_AVG_ALPHA == 5

PEAK_DETECT_RATIO == 16

PEAK_DETECT_MIN == 5

\* One in the fixed point of the logarithm's argument and of its result.
LogOne == 16384

LogBits == 12

VisUnit == 10000

\* Bound of the model: the number of windows analysed.
MaxVisTicks == 5

VisBands == 0 .. BANDS_12 - 1

bandGainVis ==
    [i \in VisBands |->
        CASE i = 0 -> 100 [] i = 1 -> 100 [] i = 2 -> 105 [] i = 3 -> 110
          [] i = 4 -> 110 [] i = 5 -> 115 [] i = 6 -> 125 [] i = 7 -> 135
          [] i = 8 -> 150 [] i = 9 -> 170 [] i = 10 -> 190 [] i = 11 -> 210]

\* The fraction of log2(y) for y in [1, 2), bit by bit by squaring.
RECURSIVE Log2Frac(_, _)
Log2Frac(y, bits) ==
    IF bits = 0 THEN 0
    ELSE LET sq == (y * y) \div LogOne
         IN  IF sq >= 2 * LogOne
             THEN Power(2, bits - 1) + Log2Frac(sq \div 2, bits - 1)
             ELSE Log2Frac(sq, bits - 1)

\* log2(y) for y >= 1, in units of 2^-LogBits
RECURSIVE Log2Fixed(_)
Log2Fixed(y) ==
    IF y >= 2 * LogOne
    THEN Power(2, LogBits) + Log2Fixed(y \div 2)
    ELSE Log2Frac(y, LogBits)

\* Variant without the logarithm: the scaled energy itself.
VisCompressLinear(rawGain) == (rawGain * VisScaleLogK) \div (10 * VIS_LOG_K)

\* log1pf(VIS_LOG_K * scaled) / log1pf(VIS_LOG_K) for raw * bandGainVis[i]
VisCompress(rawGain) ==
    LET y == LogOne + (((rawGain * VisScaleLogK) \div 100) * LogOne) \div 1000
    IN  (Log2Fixed(y) * VisUnit) \div Log2Fixed((1 + VIS_LOG_K) * LogOne)

Constrain(v, lo, hi) == IF v < lo THEN lo ELSE IF v > hi THEN hi ELSE v

\* (uint8_t)constrain(level * 255.0f + 0.5f, 0.0f, 255.0f)
ToByte(level) == Constrain((level * 255 + VisUnit \div 2) \div VisUnit, 0, 255)

\* sqrtf(sumSq / BANDS_12), in thousandths
VisRms(levels) ==
    LET sumSq == SumTo([i \in VisBands |-> (levels[i] \div 10) * (levels[i] \div 10)],
                       BANDS_12 - 1)
    IN  CHOOSE r \in 0 .. 1000 :
            /\ r * r * BANDS_12 <= sumSq
            /\ (r + 1) * (r + 1) * BANDS_12 > sumSq

VisStatics ==
    [ bandVisFft |-> [i \in VisBands |-> 0],
      bandVis8 |-> [i \in VisBands |-> 0],
      bandDelta8 |-> [i \in VisBands |-> 0],
      globalVis8 |-> 0, bassVis8 |-> 0, midVis8 |-> 0, trebleVis8 |-> 0,
      spectralFlux8 |-> 0, globalVisAvg |-> 0, peakDetected |-> 0 ]

calculateVisualBands(v, amp) ==
    LET target == [i \in VisBands |->
                      Constrain(VisCompress((amp[i] * bandGainVis[i]) \div 100), 0, VisUnit)]
        level == [i \in VisBands |-> (7 * v.bandVisFft[i] + 3 * target[i]) \div 10]
        delta == [i \in VisBands |->
                     IF level[i] - v.bandVisFft[i] < 0 THEN 0
                     ELSE level[i] - v.bandVisFft[i]]
        g == Constrain(VisRms(level), 0, 1000)
        bass == (level[0] + level[1] + level[2]) \div 3
        mid == (level[3] + level[4] + level[5] + level[6] + level[7]) \div 5
        treble == (level[8] + level[9] + level[10] + level[11]) \div 4
        flux == Constrain(SumTo(delta, BANDS_12 - 1) * VIS_FLUX_GAIN, 0, VisUnit)
        avgNext == IF v.globalVisAvg <= 0 THEN g
                   ELSE (v.globalVisAvg * (100 - PEAK_AVG_ALPHA) + g * PEAK_AVG_ALPHA) \div 100
        avg == IF avgNext > 0 THEN avgNext ELSE g
    IN  [ bandVisFft |-> level,
          bandVis8 |-> [i \in VisBands |-> ToByte(level[i])],
          bandDelta8 |-> [i \in VisBands |-> ToByte(delta[i] * VIS_DELTA_GAIN)],
          globalVis8 |-> ToByte(g * 10),
          bassVis8 |-> ToByte(bass), midVis8 |-> ToByte(mid),
          trebleVis8 |-> ToByte(treble),
          spectralFlux8 |-> ToByte(flux),
          globalVisAvg |-> avgNext,
          peakDetected |-> IF 10 * g > avg * PEAK_DETECT_RATIO
                           THEN (IF g * 100 > PEAK_DETECT_MIN * 1000 THEN 1 ELSE 0)
                           ELSE 0 ]

\* Band-energy vectors: one band at 0, 5.0, 50.0 or 400.0, the others 0.
VisVectors ==
    {[i \in VisBands |-> IF i = k THEN e ELSE 0] : k \in {0, 5, 11}, e \in {0, 500, 5000, 40000}}

\* The vector of the scenario: band 5 at 50.0.
VisScenario == [i \in VisBands |-> IF i = 5 THEN 5000 ELSE 0]

\* amp is the vector the run started with, held whether every window so
\* far carried it, target and delta the level each band moves to and its
\* last rise, as floats.
VisInit ==
    /\ scen = <<>>
    /\ encRes = [ok |-> FALSE, out |-> <<>>, outLen |-> -1]
    /\ wire = <<>>
    /\ DecoderInit
    /\ EncInit
    /\ vocal = <<>>
    /\ \E amp \in VisVectors :
        dsp = VisStatics @@ [amp |-> amp, held |-> TRUE, ticks |-> 0,
                             delta |-> [i \in VisBands |-> 0],
                             target |-> [i \in VisBands |-> 0]]

\* One analysed window: the band energies are the vector of the run, or
\* silence, and calculateVisualBands() runs.
VisTick ==
    /\ dsp.ticks < MaxVisTicks
    /\ \E hold \in BOOLEAN :
        \E amp \in {IF hold THEN dsp.amp ELSE [i \in VisBands |-> 0]} :
            \E v \in {calculateVisualBands(dsp, amp)} :
                dsp' = v @@ [amp |-> dsp.amp,
                             held |-> IF amp = dsp.amp THEN dsp.held ELSE FALSE,
                             ticks |-> dsp.ticks + 1,
                             delta |-> [i \in VisBands |->
                                          IF v.bandVisFft[i] > dsp.bandVisFft[i]
                                          THEN v.bandVisFft[i] - dsp.bandVisFft[i]
                                          ELSE 0],
                             target |-> [i \in VisBands |->
                                          Constrain(VisCompress((amp[i] * bandGainVis[i]) \div 100),
                                                    0, VisUnit)]]
    /\ UNCHANGED decVars
    /\ UNCHANGED <<wire, scen, encRes, vocal>>
    /\ UNCHANGED encVars
    /\ UNCHANGED loopVars
    /\ UNCHANGED renderVars
    /\ UNCHANGED consVars

SpecVis == VisInit /\ [][VisTick]_vars

VisHeld == dsp.amp = VisScenario /\ dsp'.held

\* C21 as stated: with band 5 held at 50.0 from the zero state, band 5
\* rises on every window, its delta is positive on the first and smaller
\* on each later one, every other band stays at 0 with delta 0, and the
\* level band 5 settles at is near 1.0.
C21_VisualScenarioAsStated ==
    [][VisHeld =>
          /\ dsp'.bandVisFft[5] > dsp.bandVisFft[5]
          /\ dsp'.bandVis8[5] > dsp.bandVis8[5]
          /\ dsp'.bandDelta8[5] > 0
          /\ dsp.ticks > 0 => /\ dsp'.delta[5] < dsp.delta[5]
                              /\ dsp'.bandDelta8[5] < dsp.bandDelta8[5]
          /\ \A i \in VisBands \ {5} :
                /\ dsp'.bandVisFft[i] = 0
                /\ dsp'.bandVis8[i] = 0
                /\ dsp'.bandDelta8[i] = 0
          /\ 10 * dsp'.target[5] >= 9 * VisUnit]_vars

\* C21 amended: the same, with the level band 5 settles at being the
\* log-compressed level of 50.0, about 0.60, which band 5 stays below and
\* has covered to four fifths after 5 windows.
C21_VisualScenario ==
    [][VisHeld =>
          /\ dsp'.bandVisFft[5] > dsp.bandVisFft[5]
          /\ dsp'.bandVis8[5] > dsp.bandVis8[5]
          /\ dsp'.bandDelta8[5] > 0
          /\ dsp.ticks > 0 => /\ dsp'.delta[5] < dsp.delta[5]
                              /\ dsp'.bandDelta8[5] < dsp.bandDelta8[5]
          /\ \A i \in VisBands \ {5} :
                /\ dsp'.bandVisFft[i] = 0
                /\ dsp'.bandVis8[i] = 0
                /\ dsp'.bandDelta8[i] = 0
          /\ 100 * dsp'.target[5] >= 59 * VisUnit
          /\ 100 * dsp'.target[5] <= 61 * VisUnit
          /\ dsp'.bandVisFft[5] < dsp'.target[5]
          /\ dsp'.ticks = 5 => 5 * dsp'.bandVisFft[5] >= 4 * dsp'.target[5]]_vars

\* Band 5 has been held at 50.0 for 5 windows.
C21_Witness ==
    /\ dsp.amp = VisScenario
    /\ dsp.held
    /\ dsp.ticks = 5
    /\ dsp.bandVis8[5] > 100
    /\ dsp.bandDelta8[5] > 0

(***************************************************************************)
(* Claims about the decoder's resync, counter and consumer state (Spec)    *)
(***************************************************************************)
\* A byte is taken from the receive queue into a buffer that is not empty.
StoresByte == pc = "loop" /\ rxFifo # <<>> /\ rxFifo' = Tail(rxFifo) /\ rxBuffer # <<>>

HeaderBad(nb) == <<nb[2], nb[4]>> \notin {<<1, 68>>, <<2, 68>>, <<3, 36>>}

FrameComplete(nb) == ~HeaderBad(nb) /\ Len(nb) >= 4 + nb[4] + 3

EofBad(nb) == nb[4 + nb[4] + 3] # 187

CrcBad(nb) == nb[5 + nb[4]] + 256 * nb[6 + nb[4]] # crc16_ccitt(SubSeq(nb, 2, 4 + nb[4]))

\* One of the three checks fails on the buffer nb.
CheckFails(nb) ==
    /\ Len(nb) >= 4
    /\ IF HeaderBad(nb) THEN TRUE
       ELSE IF ~FrameComplete(nb) THEN FALSE
       ELSE IF EofBad(nb) THEN TRUE
       ELSE CrcBad(nb)

\* C22: when a check fails with the cursor at n, the first SOF at buffer
\* positions 1 .. n-1, at i, makes bytes i .. n-1 the new buffer, unchanged
\* and in order, with the cursor at n - i; without one the buffer is
\* emptied; the cursor strictly decreases either way and nothing is
\* dispatched.
C22_ResyncPolicy ==
    [][StoresByte =>
          LET nb == Append(rxBuffer, Head(rxFifo))
              n == Len(nb)
              found == {i \in 1 .. n - 1 : nb[i + 1] = 170}
          IN  CheckFails(nb) =>
                /\ IF found # {}
                   THEN \E i \in found :
                           /\ \A j \in found : i <= j
                           /\ Len(rxBuffer') = n - i
                           /\ \A k \in 0 .. n - 1 - i : rxBuffer'[k + 1] = nb[i + k + 1]
                   ELSE rxBuffer' = <<>>
                /\ Len(rxBuffer') < n
                /\ dispatched' = dispatched]_vars

\* The buffer is a proper suffix of the damaged first frame that starts at
\* an SOF inside it: a CRC failure at the frame's end has shifted it there.
C22_Witness ==
    /\ crcErrors > 0
    /\ dispatched = <<>>
    /\ Len(rxBuffer) > 1
    /\ \E k \in 2 .. Len(ItemBytes(scen[1])) :
          rxBuffer = SubSeq(ItemBytes(scen[1]), k, Len(ItemBytes(scen[1])))

C24_CrcCounter ==
    [][/\ (pc = "loop" /\ rxFifo # <<>> /\ rxFifo' = Tail(rxFifo)) =>
            LET nb == Append(rxBuffer, Head(rxFifo))
                counted == IF rxBuffer = <<>> THEN FALSE
                           ELSE IF Len(nb) < 4 THEN FALSE
                           ELSE IF ~FrameComplete(nb) THEN FALSE
                           ELSE IF EofBad(nb) THEN FALSE
                           ELSE CrcBad(nb)
            IN  crcErrors' = crcErrors + (IF counted THEN 1 ELSE 0)
       /\ (pc = "idle" /\ pc' = "loop") => crcErrors' = crcErrors]_vars

\* One CRC failure was counted, and a later frame was dispatched without
\* the counter moving.
C24_Witness ==
    /\ crcErrors = 1
    /\ dispatched # <<>>
    /\ scen[1].damage.kind = "set"

\* The buffer nb passes all three checks.
FramePasses(nb) ==
    /\ Len(nb) >= 4
    /\ FrameComplete(nb)
    /\ ~EofBad(nb)
    /\ ~CrcBad(nb)

\* C25: a step of the decoder that is not the dispatch of a frame that
\* passed all checks (a byte discarded while seeking SOF, a byte added to
\* a partial frame, a rejection with its resync, a stale drop) leaves the
\* feature snapshot, the aux snapshot and mode/pattern/brightness as they
\* were; a FEATURE dispatch leaves the aux snapshot and the mode state, an
\* AUX dispatch the feature snapshot and the mode state, a COMMAND dispatch
\* both snapshots.
C25_ConsumerState ==
    [][LET takes == pc = "loop" /\ rxFifo # <<>> /\ rxFifo' = Tail(rxFifo)
           nb == Append(rxBuffer, Head(rxFifo))
           passes == takes /\ rxBuffer # <<>> /\ FramePasses(nb)
       IN  IF ~passes
           THEN /\ consumer'.feature = consumer.feature
                /\ consumer'.aux = consumer.aux
                /\ consumer'.state = consumer.state
           ELSE /\ nb[2] = 1 =>
                     /\ consumer'.aux = consumer.aux
                     /\ consumer'.state = consumer.state
                     /\ consumer'.feature # <<>>
                /\ nb[2] = 3 =>
                     /\ consumer'.feature = consumer.feature
                     /\ consumer'.state = consumer.state
                     /\ consumer'.aux # <<>>
                /\ nb[2] = 2 =>
                     /\ consumer'.feature = consumer.feature
                     /\ consumer'.aux = consumer.aux
                     /\ consumer'.state.mode = nb[5]]_vars

\* After a damaged first frame was rejected, a command and a feature frame
\* were dispatched: the mode state and the feature snapshot are set, the
\* aux snapshot is still as at boot.
C25_Witness ==
    /\ Len(dispatched) = 2
    /\ consumer.state.mode # ModeSolid
    /\ consumer.feature # <<>>
    /\ consumer.aux = <<>>

---------------------------------------------------------------------------
(* The vocal noise floor of calculateVocalEnvelope, in units of 1e-7      *)

VOCAL_NOISE_ALPHA == 995        \* 0.995, in thousandths
NoiseSeedLevel == 1000          \* 0.0001f
MaxNoiseTicks == 5

\* raw = rms * VOCAL_ENV_GAIN: digital silence, a level just above the
\* seed level, room noise, a voice
RawSamples == {0, 1005, 20000, 2000000}

\* floor = 0.995 * floor + 0.005 * raw
NoiseTrack(floor, raw) ==
    (VOCAL_NOISE_ALPHA * floor + (1000 - VOCAL_NOISE_ALPHA) * raw) \div 1000

\* if (vocalNoiseFloor <= 0.0001f) vocalNoiseFloor = raw; else the tracking line
updateNoiseFloor(floor, raw) ==
    IF floor <= NoiseSeedLevel THEN raw ELSE NoiseTrack(floor, raw)

\* static float vocalNoiseFloor = 0.0f; raw and ticks record the last
\* sample and the number of samples analysed
NoiseInit ==
    /\ scen = <<>>
    /\ encRes = [ok |-> FALSE, out |-> <<>>, outLen |-> -1]
    /\ wire = <<>>
    /\ DecoderInit
    /\ EncInit
    /\ vocal = <<>>
    /\ dsp = [vocalNoiseFloor |-> 0, raw |-> 0, ticks |-> 0]

\* one analysed window with raw envelope value raw
NoiseTick ==
    /\ dsp.ticks < MaxNoiseTicks
    /\ \E raw \in RawSamples :
        dsp' = [vocalNoiseFloor |-> updateNoiseFloor(dsp.vocalNoiseFloor, raw),
                raw |-> raw,
                ticks |-> dsp.ticks + 1]
    /\ UNCHANGED decVars
    /\ UNCHANGED <<wire, scen, encRes, vocal>>
    /\ UNCHANGED encVars
    /\ UNCHANGED loopVars
    /\ UNCHANGED renderVars
    /\ UNCHANGED consVars

SpecNoise == NoiseInit /\ [][NoiseTick]_vars

\* C26: the first sample sets the floor to the raw value; every later
\* sample moves it by floor = 0.995 * floor + 0.005 * raw and by nothing
\* else.
C26_NoiseFloorSeededOnce ==
    [][IF dsp.ticks = 0
       THEN dsp'.vocalNoiseFloor = dsp'.raw
       ELSE dsp'.vocalNoiseFloor = NoiseTrack(dsp.vocalNoiseFloor, dsp'.raw)]_vars

\* C27: the cursor is between 0 and 74 whenever a byte can be stored, is
\* at most 75 right after the store, and every position the checks then
\* read (header, CRC bytes, EOF) is below the 80 bytes of the buffer and
\* below the cursor.
C27_BufferBound ==
    /\ rxIndex \in 0 .. 74
    /\ \A b \in 0 .. 255 :
          LET nb == Append(rxBuffer, b) IN
          (rxBuffer # <<>> /\ Len(nb) >= 4 /\ FrameComplete(nb)) =>
              /\ Len(nb) <= 75
              /\ 4 + nb[4] + 3 <= Len(nb)
              /\ 4 + nb[4] + 3 <= MAX_FRAME_SIZE

\* A CRC failure shifted the buffer to a header inside an aux frame that
\* declares 68 payload bytes, and the cursor has reached 74 on the bytes of
\* the frames that follow.
C27_Witness ==
    /\ rxIndex = 74
    /\ rxBuffer[4] = FIXED_PAYLOAD_LEN
    /\ scen[1].in.payload = AuxHeaderPayload
    /\ crcErrors > 0

---------------------------------------------------------------------------
(* loop() of the analysis node with the one-window syllable flag           *)

MaxOnsetSeq == 3

\* vocalSyllableHit is the static of calculateVocalEnvelope; carried is
\* payload[49] of the FEATURE frame the last pass wrote (-1 if it wrote
\* none); unsent says that an onset was detected with the gate open and no
\* FEATURE frame has carried its flag yet.
OnsetInit ==
    /\ scen = <<>>
    /\ encRes = [ok |-> FALSE, out |-> <<>>, outLen |-> -1]
    /\ wire = <<>>
    /\ DecoderInit
    /\ EncInit
    /\ vocal = [vocalSyllableHit |-> 0, carried |-> -1, unsent |-> FALSE]
    /\ dsp = <<>>

\* One pass of loop() with no command waiting: a new window, if available,
\* runs calculateBandAmplitudes and with it calculateVocalEnvelope, which
\* writes vocalSyllableHit = hit ? 1 : 0 (the refractory gap rules out a hit
\* on the window after a hit); sendFftFrame, if due, copies the flag.
OnsetPass ==
    /\ fftSeq < MaxOnsetSeq
    /\ \E fftAvailable \in BOOLEAN, raw \in RawWindows, frameDue \in BOOLEAN,
          hit \in IF vocal.vocalSyllableHit = 1 THEN {FALSE} ELSE BOOLEAN :
        \E st \in {LoopBody(NodeState, FALSE, fftAvailable, raw, frameDue)} :
          LET flag == IF fftAvailable THEN (IF hit THEN 1 ELSE 0)
                      ELSE vocal.vocalSyllableHit
              written == Seqs(st.sent, TYPE_FFT) # {}
          IN  /\ PassEffect(st, frameDue)
              /\ analysed' = fftAvailable
              /\ vocal' = [vocalSyllableHit |-> flag,
                           carried |-> IF written THEN flag ELSE -1,
                           unsent |-> IF written THEN FALSE
                                      ELSE IF fftAvailable
                                      THEN flag = 1 /\ hasSignal(st.amp)
                                      ELSE vocal.unsent]
    /\ UNCHANGED decVars
    /\ UNCHANGED <<wire, scen, encRes, dsp>>
    /\ UNCHANGED <<cmdFifo, upLen, encPc, lineLen, pending>>
    /\ UNCHANGED renderVars
    /\ UNCHANGED consVars

SpecOnset == OnsetInit /\ [][OnsetPass]_vars

\* C28: an onset detected with the gate open is carried by a FEATURE frame
\* before another window is analysed: no pass analyses a new window while
\* the flag of such an onset is still unsent.
C28_OnsetVisible ==
    [][vocal.unsent => ~analysed']_vars

---------------------------------------------------------------------------
(* Streams on a link that neither drops nor corrupts bytes                 *)

LosslessInit ==
    /\ scen \in ValidTails
    /\ encRes = [ok |-> FALSE, out |-> <<>>, outLen |-> -1]
    /\ wire = StreamBytes(scen, 1)
    /\ DecoderInit
    /\ EncInit
    /\ DspIdle

SpecLossless == LosslessInit /\ [][Next]_vars

\* C29: on a lossless link, an entry of processSerialData never drops a
\* partial frame whose remaining bytes are all waiting unread in the
\* receive queue, however long the decoder was not serviced.
C29_NoDropWithBytesWaiting ==
    [][(/\ pc = "idle"
        /\ pc' = "loop"
        /\ rxIndex >= 4
        /\ Len(rxFifo) >= 4 + rxBuffer[4] + 3 - rxIndex)
          => rxBuffer' = rxBuffer]_vars

---------------------------------------------------------------------------
(* Claims about the aux frames of the analysis node (SpecEnc) *)

\* C30: among the frames a pass of loop() writes, an AUX frame comes only
\* right after a FEATURE frame and every FEATURE frame is followed by one;
\* a pass that is not a transmit tick, or whose FEATURE frame the silence
\* gate suppresses, writes no AUX frame; the pass writes as many AUX as
\* FEATURE frames, and auxSeq equals fftSeq after it.
C30_AuxFollowsFeature ==
    [][/\ \A j \in FramesOf(sent', TYPE_AUX) :
              j > 1 /\ sent'[j - 1].type = TYPE_FFT
       /\ \A j \in FramesOf(sent', TYPE_FFT) :
              j < Len(sent') /\ sent'[j + 1].type = TYPE_AUX
       /\ ~txTick' => FramesOf(sent', TYPE_AUX) = {}
       /\ (\A band \in Bands : smoothedBandAmplitude'[band] <= SILENCE_THRESHOLD)
              => FramesOf(sent', TYPE_AUX) = {}
       /\ Cardinality(FramesOf(sent', TYPE_AUX)) = Cardinality(FramesOf(sent', TYPE_FFT))
       /\ auxSeq' = fftSeq']_vars

\* A transmit tick wrote a command, a feature and an aux frame, in that
\* order, and both counters have just wrapped to 0 together.
C30_Witness ==
    /\ txTick
    /\ Len(sent) = 3
    /\ sent[1].type = TYPE_CMD
    /\ sent[2].type = TYPE_FFT
    /\ sent[3].type = TYPE_AUX
    /\ sent[3].seq = 255
    /\ auxSeq = 0
    /\ fftSeq = 0

====
